---- MODULE Spec2Model ----
(***************************************************************************)
(* Verification model of the speech-service pipeline (greg-aver/streaming). *)
(*                                                                         *)
(* Part 1: ResultAggregator (app/aggregators/result_aggregator.py).        *)
(* Every coroutine is cut at its suspension points: the code between two   *)
(* awaits that really yield (a bus publish with subscribers, a sleep, the  *)
(* await of another task) is one atomic action.                            *)
(*                                                                         *)
(* Part 2: the workers (app/workers/vad.py, asr.py, diarization.py). One   *)
(* worker runs per behaviour; worker names which of the three it is.       *)
(*                                                                         *)
(* Part 3: AsyncEventBus (app/events.py) with abstract handlers.           *)
(*                                                                         *)
(* Part 4: SessionManager, WebSocketManager and WebSocketHandler            *)
(* (app/handlers/websocket_handler.py).                                    *)
(*                                                                         *)
(* Part 5: the container's initialize_services and cleanup_services        *)
(* (app/container.py).                                                     *)
(*                                                                         *)
(* Part 6: one session's chunks through the started components, and the    *)
(* stops of cleanup_services on them.                                      *)
(*                                                                         *)
(* Each part has its own specification; the variables of the other parts   *)
(* stay as constructed.                                                    *)
(***************************************************************************)
EXTENDS Integers, Sequences, FiniteSets, TLC

\* ------------------------------------------------------------------ bounds
NumKeys == 2
MaxEvents == 4
AggTimeout == 1
MaxFailures == 1
MaxInputs == 3
max_concurrent_tasks == 2
MaxPublishes == 2
max_history_size == 1
MaxCreates == 3
MaxAllocs == 3
MaxEnds == 2
NumConns == 2
MaxFrames == 2
MaxCompletes == 2
max_audio_chunk_size == 2
PipeChunks == 3

\* --------------------------------------------------------------- constants
Keys == 1..NumKeys
Kinds == {"vad", "asr", "diarization"}
EventIds == 1..MaxEvents
None == [ver |-> 0, ok |-> FALSE]
Workers == {"vad", "asr", "diarization"}
InputIds == 1..MaxInputs
BusTopics == {"t1", "t2"}
Handlers == {"h1", "h2"}
SessionIds == {"s1", "s2"}
NoSession == [status |-> "absent"]
Conns == 1..NumConns

VARIABLES
    is_running,      \* ResultAggregator.is_running
    subscriptions,   \* topics (by component) the aggregator is subscribed to
    chunk_states,    \* chunk_key -> id of the ChunkAggregationState object, 0 = absent
    objs,            \* the ChunkAggregationState objects, by creation number
    age,             \* chunk_key -> time.time() - created_at of its entry, saturated
    stats,           \* ResultAggregator.stats
    nEvents,         \* number of result events handled so far
    nFailed,         \* number of them that carried success = false
    hpub,            \* result handlers suspended inside publish_chunk_complete
    sweeper,         \* the cleanup task: pc and its expired_chunks list
    stopper,         \* the stop() coroutine: pc and its remaining_chunks list
    history          \* chunk_complete events handed to the bus, in order

aggVars == <<is_running, subscriptions, chunk_states, objs, age, stats, nEvents, nFailed,
             hpub, sweeper, stopper, history>>

VARIABLES
    worker,            \* which worker class this run is about ("none": no worker)
    w_is_running,      \* the worker's is_running
    w_subscribed,      \* whether its input handler is registered on the bus
    tasks,             \* input event -> state of the processing task created for it
    processing_tasks,  \* the worker's processing_tasks set
    nInputs,           \* number of input events delivered to the handler
    dropped,           \* input event -> why the handler dropped it ("no": it did not)
    out_history,       \* result events handed to the bus on the output topic
    speech_history,    \* speech_detected events handed to the bus (VAD)
    w_stop,            \* the worker's stop() coroutine: pc and the tasks it waits for
    cleanups,          \* analyzer cleanup() calls: the tasks unfinished at each call
    analyzer,          \* input event -> analyzer calls made for it and how the call ended
    downstream         \* input event -> handler tasks of its task's publish still running

wkVars == <<worker, w_is_running, w_subscribed, tasks, processing_tasks, nInputs,
            dropped, out_history, speech_history, w_stop, cleanups, analyzer,
            downstream>>

VARIABLES
    subscribers,     \* AsyncEventBus._subscribers: event name -> set of handlers
    event_history,   \* AsyncEventBus._event_history (event names)
    bus_lock,        \* AsyncEventBus._lock: "free" or "held"
    pubs             \* the publish() calls made so far, each with its handler tasks

busVars == <<subscribers, event_history, pubs, bus_lock>>

VARIABLES
    sessions,        \* SessionManager.sessions: session id -> record, NoSession = absent
    timers,          \* session id -> number of pending _cleanup_session_later tasks
    nCreates,        \* create_session calls made so far
    nEnds,           \* end_session calls that ended a session so far
    removals,        \* session id -> number of times its record was deleted
    allocs,          \* the values get_next_chunk_id returned, in order
    overwrites,      \* create_session calls that replaced a record still in the table
    sm_errors        \* SessionManagerError raised by get_next_chunk_id so far

smVars == <<sessions, timers, nCreates, nEnds, removals, allocs, overwrites, sm_errors>>

VARIABLES
    ws_is_running,   \* WebSocketHandler.is_running
    ws_subscribed,   \* whether _handle_chunk_complete is subscribed to chunk_complete
    connections,     \* WebSocketManager.connections: session id -> websocket, 0 = none
    conn,            \* websocket -> position of its handle_connection coroutine
    sending,         \* websocket -> number of send_text calls in progress on it
    broken,          \* websocket -> a send on it has raised
    sent,            \* websocket -> the messages handed to its send_text, in order
    hcc,             \* _handle_chunk_complete calls suspended in their send
    audio_events,    \* websocket -> audio_chunk_received events its read loop published
    cc_events,       \* chunk_complete events delivered to _handle_chunk_complete
    frames           \* websocket -> binary frames received on it, in order

wsVars == <<ws_is_running, ws_subscribed, connections, conn, sending, broken, sent, hcc,
            audio_events, cc_events, frames>>

VARIABLES
    lc,              \* the ServiceLifecycleManager: where it is, and in which step
    instances,       \* the objects the container's providers have built, in order
    lc_log,          \* the steps of initialize_services and cleanup_services so far
    lc_raised        \* the functions that have raised to the lifecycle manager

lcVars == <<lc, instances, lc_log, lc_raised>>

VARIABLES
    p_ws,            \* the started WebSocket handler: running, subscribed, session connected
    p_agg,           \* the started aggregator: running, subscribed
    p_wk,            \* the started workers: running, subscribed
    p_acks,          \* the chunk ids acknowledged to the client, in order
    p_task,          \* per worker and chunk: the processing task and its outcome
    p_entry,         \* per chunk: the aggregator's entry and its age
    p_results,       \* the processing_complete messages sent to the client, in order
    p_shutdown       \* how far the stops have got, and what was pending when they began

pipeVars == <<p_ws, p_agg, p_wk, p_acks, p_task, p_entry, p_results, p_shutdown>>

vars == <<aggVars, wkVars, busVars, smVars, wsVars, lcVars, pipeVars>>

\* the variables outside one part
offAgg == <<wkVars, busVars, smVars, wsVars, lcVars, pipeVars>>
offWk == <<aggVars, busVars, smVars, wsVars, lcVars, pipeVars>>
offBus == <<aggVars, wkVars, smVars, wsVars, lcVars, pipeVars>>
offSm == <<aggVars, wkVars, busVars, wsVars, lcVars, pipeVars>>
offWs == <<aggVars, wkVars, busVars, lcVars, pipeVars>>
offLc == <<aggVars, wkVars, busVars, smVars, wsVars, pipeVars>>
offPipe == <<aggVars, wkVars, busVars, smVars, wsVars, lcVars>>

\* ------------------------------------------------- ChunkAggregationState
NewState(key) ==
    [key |-> key, completed |-> {}, results |-> [c \in Kinds |-> None]]

NoState == NewState(0)

\* variant: the result is stored but the component is not marked completed
add_result_without_mark(state, component, result) ==
    [state EXCEPT !.results[component] = result]

add_result(state, component, result) ==
    [state EXCEPT !.results[component] = result,
                  !.completed = @ \cup {component}]

is_complete(state) == Kinds \subseteq state.completed

\* is_expired, on the age time.time() - created_at of the entry
is_expired(a) == a > AggTimeout

get_missing_components(state) == Kinds \ state.completed

\* ------------------------------------------------------ helper operators
\* correlation_id = f"{session_id}_{chunk_id}"
CorrelationId(sid, chunk_id) == <<sid, "_", chunk_id>>

RECURSIVE SortedSeq(_)
SortedSeq(S) ==
    IF S = {} THEN <<>>
    ELSE LET m == CHOOSE x \in S : \A y \in S : x <= y
         IN <<m>> \o SortedSeq(S \ {m})

\* dict iteration order is insertion order, i.e. creation order of the objects
\* (all of them, or those that are expired)
Items(expired_only) ==
    LET gens == {chunk_states[k] : k \in {kk \in Keys : chunk_states[kk] # 0
                                                     /\ (expired_only => is_expired(age[kk]))}}
        sorted == SortedSeq(gens)
    IN [i \in 1..Len(sorted) |-> [key |-> objs[sorted[i]].key, gen |-> sorted[i]]]

\* the chunk_complete payload built by _publish_chunk_complete; gen names the
\* ChunkAggregationState object it was built from, by names the caller
AggregatedResult(st, gen, is_timeout, by) ==
    [key |-> st.key,
     gen |-> gen,
     completed_components |-> st.completed,
     missing_components |-> get_missing_components(st),
     is_complete |-> is_complete(st),
     is_timeout |-> is_timeout,
     results |-> {c \in Kinds : st.results[c] # None},
     failed |-> {c \in Kinds : st.results[c] # None /\ ~st.results[c].ok},
     by |-> by]

\* _publish_chunk_complete after the publish returned: the statistics
UpdateStats(st, state, is_timeout) ==
    IF is_complete(state) THEN [st EXCEPT !.chunks_completed = @ + 1]
    ELSE IF is_timeout THEN [st EXCEPT !.chunks_timed_out = @ + 1]
    ELSE [st EXCEPT !.chunks_partial = @ + 1]

\* ------------------------------------------------------------- pipeline
\* One session's chunks through the started components: the WebSocket handler, the
\* three workers and the aggregator on one bus. A publish and the handlers it calls
\* are one step; analyzer failures and send failures are left out here (Parts 2
\* and 4 have them). The stops are the ones cleanup_services makes, in its order,
\* on the started objects.
Chunks == 0..(PipeChunks - 1)

NoEntry == [open |-> FALSE, state |-> NoState, age |-> 0]

\* the started pipeline: every component running and subscribed, the session
\* connected, no chunk sent yet
InitPipe ==
    /\ p_ws = [is_running |-> TRUE, subscribed |-> TRUE, connected |-> TRUE]
    /\ p_agg = [is_running |-> TRUE, subscribed |-> TRUE]
    /\ p_wk = [w \in Workers |-> [is_running |-> TRUE, subscribed |-> TRUE]]
    /\ p_acks = <<>>
    /\ p_task = [w \in Workers |-> [c \in Chunks |-> [st |-> "none", is_speech |-> FALSE]]]
    /\ p_entry = [c \in Chunks |-> NoEntry]
    /\ p_results = <<>>
    /\ p_shutdown = [stage |-> "up", pending |-> {}]

\* ------------------------------------------------------------------- Init
InitAggregator ==
    /\ is_running = FALSE
    /\ subscriptions = {}
    /\ chunk_states = [k \in Keys |-> 0]
    /\ objs = [g \in EventIds |-> NoState]
    /\ age = [k \in Keys |-> 0]
    /\ stats = [chunks_processed |-> 0, chunks_completed |-> 0,
                chunks_timed_out |-> 0, chunks_partial |-> 0]
    /\ nEvents = 0
    /\ nFailed = 0
    /\ hpub = {}
    /\ sweeper = [pc |-> "unstarted", list |-> <<>>]
    /\ stopper = [pc |-> "idle", list |-> <<>>]
    /\ history = <<>>

\* no worker: the aggregator runs on result events from the bus
NoWorker ==
    /\ worker = "none"
    /\ w_is_running = FALSE
    /\ w_subscribed = FALSE
    /\ tasks = [e \in InputIds |-> "none"]
    /\ processing_tasks = {}
    /\ nInputs = 0
    /\ dropped = [e \in InputIds |-> "no"]
    /\ out_history = <<>>
    /\ speech_history = <<>>
    /\ w_stop = [pc |-> "idle", snap |-> {}, cancel |-> {}]
    /\ cleanups = <<>>
    /\ analyzer = [e \in InputIds |-> [calls |-> 0, outcome |-> "none"]]
    /\ downstream = [e \in InputIds |-> 0]

\* AsyncEventBus.__init__: no subscriber, no history
InitBus ==
    /\ subscribers = <<>>
    /\ event_history = <<>>
    /\ pubs = <<>>
    /\ bus_lock = "free"

\* SessionManager.__init__: no session
InitSessions ==
    /\ sessions = [sid \in SessionIds |-> NoSession]
    /\ timers = [sid \in SessionIds |-> 0]
    /\ nCreates = 0
    /\ nEnds = 0
    /\ removals = [sid \in SessionIds |-> 0]
    /\ allocs = <<>>
    /\ overwrites = {}
    /\ sm_errors = 0

\* WebSocketManager.__init__ and WebSocketHandler.__init__: no connection
InitWs ==
    /\ ws_is_running = FALSE
    /\ ws_subscribed = FALSE
    /\ connections = [sid \in SessionIds |-> 0]
    /\ conn = [c \in Conns |-> [pc |-> "new", sid |-> "", frame |-> 0, chunk_id |-> 0]]
    /\ sending = [c \in Conns |-> 0]
    /\ broken = [c \in Conns |-> FALSE]
    /\ sent = [c \in Conns |-> <<>>]
    /\ hcc = {}
    /\ audio_events = [c \in Conns |-> <<>>]
    /\ cc_events = <<>>
    /\ frames = [c \in Conns |-> <<>>]

\* the container before ServiceLifecycleManager is entered: no object built
InitLifecycle ==
    /\ lc = [pc |-> "new", step |-> 0, failed |-> FALSE]
    /\ instances = <<>>
    /\ lc_log = <<>>
    /\ lc_raised = {}

Init == InitAggregator /\ NoWorker /\ InitBus /\ InitSessions /\ InitWs /\ InitLifecycle /\ InitPipe

\* ---------------------------------------------------------------- actions
start ==
    /\ ~is_running
    /\ stopper.pc = "idle"
    /\ sweeper.pc = "unstarted"
    /\ subscriptions' = Kinds
    /\ sweeper' = [pc |-> "sleep", list |-> <<>>]
    /\ is_running' = TRUE
    /\ UNCHANGED <<chunk_states, objs, age, stats, nEvents, nFailed, hpub, stopper, history>>
    /\ UNCHANGED offAgg

\* _handle_vad_completed / _handle_asr_completed / _handle_diarization_completed:
\* runs up to the await of the bus publish inside _publish_chunk_complete
handle_component_completed(component, key, ok, valid) ==
    /\ component \in subscriptions
    /\ nEvents < MaxEvents
    /\ ok \/ nFailed < MaxFailures
    /\ IF ~valid
       THEN UNCHANGED vars
       ELSE LET created == chunk_states[key] = 0
                gen == IF created THEN stats.chunks_processed + 1 ELSE chunk_states[key]
                base == IF created THEN NewState(key) ELSE objs[gen]
                st == add_result(base, component,
                                 [ver |-> base.results[component].ver + 1, ok |-> ok])
            IN /\ nEvents' = nEvents + 1
               /\ nFailed' = IF ok THEN nFailed ELSE nFailed + 1
               /\ chunk_states' = [chunk_states EXCEPT ![key] = gen]
               /\ objs' = [objs EXCEPT ![gen] = st]
               /\ stats' = IF created THEN [stats EXCEPT !.chunks_processed = @ + 1] ELSE stats
               /\ IF is_complete(st)
                  THEN /\ history' = Append(history, AggregatedResult(st, gen, FALSE, "handler"))
                       /\ hpub' = hpub \cup {[ev |-> nEvents + 1, key |-> key, gen |-> gen]}
                  ELSE UNCHANGED <<history, hpub>>
               /\ UNCHANGED <<is_running, subscriptions, age, sweeper, stopper>>
               /\ UNCHANGED offAgg

\* the handler resumes after the publish: statistics, then del chunk_states[chunk_key];
\* a KeyError is caught by the handler's except Exception
handler_resume(h) ==
    /\ h \in hpub
    /\ hpub' = hpub \ {h}
    /\ stats' = UpdateStats(stats, objs[h.gen], FALSE)
    /\ chunk_states' = [chunk_states EXCEPT ![h.key] = 0]
    /\ age' = [age EXCEPT ![h.key] = 0]
    /\ UNCHANGED <<is_running, subscriptions, objs, nEvents, nFailed, sweeper, stopper, history>>
    /\ UNCHANGED offAgg

\* time.time() advances: every entry in the table ages (the age saturates above the
\* timeout, where is_expired no longer changes)
Tick ==
    /\ \E k \in Keys : chunk_states[k] # 0 /\ age[k] <= AggTimeout
    /\ age' = [k \in Keys |->
                 IF chunk_states[k] # 0 /\ age[k] <= AggTimeout THEN age[k] + 1 ELSE age[k]]
    /\ UNCHANGED <<is_running, subscriptions, chunk_states, objs, stats, nEvents, nFailed, hpub,
                   sweeper, stopper, history>>
    /\ UNCHANGED offAgg

\* _cleanup_expired_chunks: one pass of the loop body from the wake-up to the first
\* publish (or to the sleep when nothing is expired)
cleanup_scan ==
    /\ sweeper.pc = "sleep"
    /\ IF ~is_running
       THEN /\ sweeper' = [pc |-> "done", list |-> <<>>]
            /\ UNCHANGED history
       ELSE LET expired_chunks == Items(TRUE) IN
            IF expired_chunks = <<>>
            THEN UNCHANGED <<sweeper, history>>
            ELSE /\ history' = Append(history,
                       AggregatedResult(objs[expired_chunks[1].gen], expired_chunks[1].gen,
                                        TRUE, "sweeper"))
                 /\ sweeper' = [pc |-> "pub", list |-> expired_chunks]
    /\ UNCHANGED <<is_running, subscriptions, chunk_states, objs, age, stats, nEvents, nFailed,
                   hpub, stopper>>
    /\ UNCHANGED offAgg

\* the sweeper resumes after a publish: statistics, del, then the next expired entry;
\* a KeyError ends the pass (except Exception, sleep(1), next pass)
cleanup_resume ==
    /\ sweeper.pc = "pub"
    /\ LET cur == Head(sweeper.list)
           rest == Tail(sweeper.list)
       IN /\ stats' = UpdateStats(stats, objs[cur.gen], TRUE)
          /\ IF chunk_states[cur.key] = 0
             THEN /\ sweeper' = [pc |-> "sleep", list |-> <<>>]
                  /\ UNCHANGED <<chunk_states, age, history>>
             ELSE /\ chunk_states' = [chunk_states EXCEPT ![cur.key] = 0]
                  /\ age' = [age EXCEPT ![cur.key] = 0]
                  /\ IF rest = <<>>
                     THEN /\ sweeper' = [pc |-> "sleep", list |-> <<>>]
                          /\ UNCHANGED history
                     ELSE /\ history' = Append(history,
                                AggregatedResult(objs[rest[1].gen], rest[1].gen, TRUE, "sweeper"))
                          /\ sweeper' = [pc |-> "pub", list |-> rest]
    /\ UNCHANGED <<is_running, subscriptions, objs, nEvents, nFailed, hpub, stopper>>
    /\ UNCHANGED offAgg

\* the cancelled cleanup task takes its CancelledError at its suspension point
cleanup_cancelled ==
    /\ sweeper.pc = "cancelled"
    /\ sweeper' = [pc |-> "done", list |-> <<>>]
    /\ UNCHANGED <<is_running, subscriptions, chunk_states, objs, age, stats, nEvents, nFailed,
                   hpub, stopper, history>>
    /\ UNCHANGED offAgg

\* stop() up to the await of the cancelled cleanup task
stop ==
    /\ is_running
    /\ stopper.pc = "idle"
    /\ is_running' = FALSE
    /\ sweeper' = [sweeper EXCEPT !.pc = "cancelled"]
    /\ stopper' = [pc |-> "await_cleanup", list |-> <<>>]
    /\ UNCHANGED <<subscriptions, chunk_states, objs, age, stats, nEvents, nFailed, hpub, history>>
    /\ UNCHANGED offAgg

\* stop() after the cleanup task ended: _flush_remaining_chunks up to its first
\* publish, or straight to cleanup_subscriptions when nothing remains
flush_remaining_chunks ==
    /\ stopper.pc = "await_cleanup"
    /\ sweeper.pc = "done"
    /\ LET remaining_chunks == Items(FALSE) IN
       IF remaining_chunks = <<>>
       THEN /\ subscriptions' = {}
            /\ stopper' = [pc |-> "done", list |-> <<>>]
            /\ UNCHANGED history
       ELSE /\ history' = Append(history,
                   AggregatedResult(objs[remaining_chunks[1].gen], remaining_chunks[1].gen,
                                    FALSE, "flush"))
            /\ stopper' = [pc |-> "flush", list |-> remaining_chunks]
            /\ UNCHANGED subscriptions
    /\ UNCHANGED <<is_running, chunk_states, objs, age, stats, nEvents, nFailed, hpub, sweeper>>
    /\ UNCHANGED offAgg

\* the flush resumes after a publish: statistics, del (a KeyError leaves stop()),
\* the next remaining entry, and cleanup_subscriptions after the last one
flush_resume ==
    /\ stopper.pc = "flush"
    /\ LET cur == Head(stopper.list)
           rest == Tail(stopper.list)
       IN /\ stats' = UpdateStats(stats, objs[cur.gen], FALSE)
          /\ IF chunk_states[cur.key] = 0
             THEN /\ stopper' = [pc |-> "raised", list |-> <<>>]
                  /\ UNCHANGED <<chunk_states, age, history, subscriptions>>
             ELSE /\ chunk_states' = [chunk_states EXCEPT ![cur.key] = 0]
                  /\ age' = [age EXCEPT ![cur.key] = 0]
                  /\ IF rest = <<>>
                     THEN /\ subscriptions' = {}
                          /\ stopper' = [pc |-> "done", list |-> <<>>]
                          /\ UNCHANGED history
                     ELSE /\ history' = Append(history,
                                AggregatedResult(objs[rest[1].gen], rest[1].gen, FALSE, "flush"))
                          /\ stopper' = [pc |-> "flush", list |-> rest]
                          /\ UNCHANGED subscriptions
    /\ UNCHANGED <<is_running, objs, nEvents, nFailed, hpub, sweeper>>
    /\ UNCHANGED offAgg

HandleResult ==
    \E c \in Kinds, k \in Keys, ok \in BOOLEAN, valid \in BOOLEAN :
        handle_component_completed(c, k, ok, valid)

HandlerResume == \E h \in hpub : handler_resume(h)

Next ==
    \/ start
    \/ HandleResult
    \/ HandlerResume
    \/ Tick
    \/ cleanup_scan
    \/ cleanup_resume
    \/ cleanup_cancelled
    \/ stop
    \/ flush_remaining_chunks
    \/ flush_resume

Spec == Init /\ [][Next]_vars

\* ------------------------------------------------------------- workers
InitWorker ==
    /\ worker \in Workers
    /\ w_is_running = FALSE
    /\ w_subscribed = FALSE
    /\ tasks = [e \in InputIds |-> "none"]
    /\ processing_tasks = {}
    /\ nInputs = 0
    /\ dropped = [e \in InputIds |-> "no"]
    /\ out_history = <<>>
    /\ speech_history = <<>>
    /\ w_stop = [pc |-> "idle", snap |-> {}, cancel |-> {}]
    /\ cleanups = <<>>
    /\ analyzer = [e \in InputIds |-> [calls |-> 0, outcome |-> "none"]]
    /\ downstream = [e \in InputIds |-> 0]

\* VADWorker._handle_audio_chunk and DiarizationWorker._handle_speech_detected test
\* is_running first; ASRWorker._handle_speech_detected has no such test
ChecksRunning(w) == w \in {"vad", "diarization"}

\* the concurrency limit of the input handlers
\* variant: the limit test is strict
AtCapacity_strict(n) == n > max_concurrent_tasks

AtCapacity(n) == n >= max_concurrent_tasks

\* variant: only a task that ran to its end leaves the set
Discard_unless_cancelled(set, t, ending) ==
    IF ending = "cancelled" THEN set ELSE set \ {t}

\* processing_tasks.discard(task) when the task ends: the done callback of the VAD
\* and the diarization worker, the finally clause of the ASR worker
Discard(set, t, ending) == set \ {t}

\* tasks that have been created and have not finished
Unfinished == {t \in InputIds : tasks[t] \notin {"none", "done", "cancelled"}}

\* start(): analyzer initialize, subscribe, is_running = True
worker_start ==
    /\ worker \in Workers
    /\ ~w_is_running /\ ~w_subscribed
    /\ w_stop.pc = "idle"
    /\ w_subscribed' = TRUE
    /\ w_is_running' = TRUE
    /\ UNCHANGED <<worker, analyzer, downstream, tasks, processing_tasks, nInputs, dropped, out_history,
                   speech_history, w_stop, cleanups>>
    /\ UNCHANGED offWk

\* the input handler, called by the bus for one input event: it returns without
\* awaiting anything
handle_input ==
    /\ worker \in Workers
    /\ w_subscribed
    /\ nInputs < MaxInputs
    /\ LET e == nInputs + 1 IN
       /\ nInputs' = e
       /\ IF ChecksRunning(worker) /\ ~w_is_running
          THEN /\ dropped' = [dropped EXCEPT ![e] = "not_running"]
               /\ UNCHANGED <<tasks, processing_tasks>>
          ELSE IF AtCapacity(Cardinality(processing_tasks))
          THEN /\ dropped' = [dropped EXCEPT ![e] = "at_capacity"]
               /\ UNCHANGED <<tasks, processing_tasks>>
          ELSE /\ tasks' = [tasks EXCEPT ![e] = "created"]
               /\ processing_tasks' = processing_tasks \cup {e}
               /\ UNCHANGED dropped
    /\ UNCHANGED <<worker, analyzer, downstream, w_is_running, w_subscribed, out_history, speech_history,
                   w_stop, cleanups>>
    /\ UNCHANGED offWk

\* the first step of a processing task, up to the await of the analyzer call.
\* ASRWorker.process_chunk raises WorkerError when the worker is not running;
\* _process_speech_with_cleanup logs it and publishes nothing
task_start(t) ==
    /\ tasks[t] = "created"
    /\ t \notin w_stop.cancel
    /\ IF worker = "asr" /\ ~w_is_running
       THEN /\ tasks' = [tasks EXCEPT ![t] = "done"]
            /\ processing_tasks' = Discard(processing_tasks, t, "done")
            /\ UNCHANGED analyzer
       ELSE /\ tasks' = [tasks EXCEPT ![t] = "analyzing"]
            /\ analyzer' = [analyzer EXCEPT ![t].calls = @ + 1]
            /\ UNCHANGED processing_tasks
    /\ UNCHANGED <<worker, downstream, w_is_running, w_subscribed, nInputs, dropped,
                   out_history, speech_history, w_stop, cleanups>>
    /\ UNCHANGED offWk

\* the result payload of a successful analyzer call, with the keys
\* ProcessingResultModel requires of the kind
AnalyzerResult(w, is_speech) ==
    IF w = "vad" THEN [is_speech |-> is_speech, confidence |-> 1]
    ELSE IF w = "asr" THEN [text |-> "words", confidence |-> 1]
    ELSE [speakers |-> <<"speaker">>, segments |-> <<"segment">>]

\* the error text: "Processing timeout" for asyncio.TimeoutError, str(e) otherwise
ErrorText(outcome) ==
    IF outcome = "timeout" THEN "Processing timeout" ELSE "exception"

\* variant: the error payload carries the error text only
ErrorResult_bare(w, err) == [error |-> err]

ErrorResult(w, err) ==
    IF w = "vad" THEN [is_speech |-> FALSE, confidence |-> 0, error |-> err]
    ELSE IF w = "asr"
    THEN [text |-> "", confidence |-> 0, segments |-> <<>>, language |-> "unknown",
          error |-> err]
    ELSE [speakers |-> <<>>, segments |-> <<>>, error |-> err]

\* the input event e of a worker: audio_chunk_received for VAD, speech_detected for
\* ASR and diarization. Its correlation id names the chunk's (session, chunk) pair
InputEvent(e) ==
    [session_id |-> "s1", chunk_id |-> e, data |-> <<"audio", e>>, sample_rate |-> 16000,
     correlation_id |-> CorrelationId("s1", e)]

\* correlation_id = None
NoCorrelation == <<>>

\* the correlation id of the result event: the success paths and the ASR worker's
\* failure paths pass event.correlation_id on; _handle_processing_error of the VAD
\* and the diarization worker builds its Event with correlation_id = None
ResultCorrelation(w, t, outcome) ==
    IF outcome = "ok" \/ w = "asr" THEN InputEvent(t).correlation_id ELSE NoCorrelation

\* the speech_detected event VADWorker._publish_results builds from the input event
SpeechEvent(t) ==
    [ev |-> t,
     session_id |-> InputEvent(t).session_id,
     chunk_id |-> InputEvent(t).chunk_id,
     data |-> InputEvent(t).data,
     sample_rate |-> InputEvent(t).sample_rate,
     correlation_id |-> InputEvent(t).correlation_id]

\* the result event a task publishes for an analyzer outcome
ResultEvent(t, outcome, is_speech) ==
    [ev |-> t,
     correlation_id |-> ResultCorrelation(worker, t, outcome),
     success |-> outcome = "ok",
     error |-> IF outcome = "ok" THEN "none" ELSE ErrorText(outcome),
     result |-> IF outcome = "ok" THEN AnalyzerResult(worker, is_speech)
                ELSE ErrorResult(worker, ErrorText(outcome))]

\* the subscribers AsyncEventBus.publish creates a handler task for: the aggregator
\* for a result event, the ASR and the diarization worker for speech_detected
HandlerTasks(topic) == IF topic = "speech_detected" THEN 2 ELSE 1

\* the state of the task while it awaits the publish of its result event: the
\* failure paths of the VAD and the diarization worker publish from
\* _handle_processing_error; the ASR worker publishes every result on one path
\* variant: the VAD worker goes on to speech_detected after every successful detection
Publishing_speech_always(w, outcome, is_speech) ==
    IF outcome # "ok" /\ w # "asr" THEN "publishing_error"
    ELSE IF w = "vad" THEN "publishing_then_speech"
    ELSE "publishing"

Publishing(w, outcome, is_speech) ==
    IF outcome # "ok" /\ w # "asr" THEN "publishing_error"
    ELSE IF is_speech THEN "publishing_then_speech"
    ELSE "publishing"

\* the analyzer call returns, raises or times out; the task builds its result and
\* awaits the bus publish of it
task_result(t, outcome, is_speech) ==
    /\ tasks[t] = "analyzing"
    /\ t \notin w_stop.cancel
    /\ is_speech => (worker = "vad" /\ outcome = "ok")
    /\ analyzer' = [analyzer EXCEPT ![t].outcome = outcome]
    /\ out_history' = Append(out_history, ResultEvent(t, outcome, is_speech))
    /\ tasks' = [tasks EXCEPT ![t] = Publishing(worker, outcome, is_speech)]
    /\ downstream' = [downstream EXCEPT ![t] = HandlerTasks("completed")]
    /\ UNCHANGED <<worker, w_is_running, w_subscribed, processing_tasks, nInputs,
                   dropped, speech_history, w_stop, cleanups>>
    /\ UNCHANGED offWk

\* a handler task of the publish the task awaits ends, with everything it awaited
handler_task_done(t) ==
    /\ tasks[t] \in {"publishing", "publishing_then_speech", "publishing_speech",
                     "publishing_error"}
    /\ downstream[t] > 0
    /\ downstream' = [downstream EXCEPT ![t] = @ - 1]
    /\ UNCHANGED <<worker, analyzer, w_is_running, w_subscribed, tasks, processing_tasks,
                   nInputs, dropped, out_history, speech_history, w_stop, cleanups>>
    /\ UNCHANGED offWk

\* whether AsyncEventBus.publish returns before the handler tasks it created have
\* ended: it awaits asyncio.gather over all of them
\* variant: publish returns as soon as the handler tasks are created
ReturnsBeforeHandlers_at_once(n) == TRUE

ReturnsBeforeHandlers(n) == n = 0

\* the publish returned: VAD publishes speech_detected when speech was detected;
\* otherwise the task ends and leaves processing_tasks (the done callback of the
\* VAD and the diarization worker, the finally clause of the ASR worker)
task_published(t) ==
    /\ tasks[t] \in {"publishing", "publishing_then_speech", "publishing_speech",
                     "publishing_error"}
    /\ t \notin w_stop.cancel
    /\ ReturnsBeforeHandlers(downstream[t])
    /\ IF tasks[t] = "publishing_then_speech"
       THEN /\ speech_history' = Append(speech_history, SpeechEvent(t))
            /\ tasks' = [tasks EXCEPT ![t] = "publishing_speech"]
            /\ downstream' = [downstream EXCEPT ![t] = HandlerTasks("speech_detected")]
            /\ UNCHANGED processing_tasks
       ELSE /\ tasks' = [tasks EXCEPT ![t] = "done"]
            /\ processing_tasks' = Discard(processing_tasks, t, "done")
            /\ UNCHANGED <<speech_history, downstream>>
    /\ UNCHANGED <<worker, analyzer, w_is_running, w_subscribed, nInputs, dropped, out_history,
                   w_stop, cleanups>>
    /\ UNCHANGED offWk

\* the publish raises EventPublishError before any handler task is created. On the
\* success path of the VAD and the diarization worker the except clause of the
\* task calls _handle_processing_error, which publishes an error result; inside
\* _handle_processing_error, and in the ASR worker, the exception is logged and the
\* task ends
task_publish_raised(t) ==
    /\ tasks[t] \in {"publishing", "publishing_then_speech", "publishing_speech",
                     "publishing_error"}
    /\ t \notin w_stop.cancel
    /\ downstream[t] = HandlerTasks(IF tasks[t] = "publishing_speech" THEN "speech_detected"
                                    ELSE "completed")
    /\ IF worker # "asr" /\ tasks[t] # "publishing_error"
       THEN /\ out_history' = Append(out_history, ResultEvent(t, "raise", FALSE))
            /\ tasks' = [tasks EXCEPT ![t] = "publishing_error"]
            /\ downstream' = [downstream EXCEPT ![t] = HandlerTasks("completed")]
            /\ UNCHANGED processing_tasks
       ELSE /\ tasks' = [tasks EXCEPT ![t] = "done"]
            /\ processing_tasks' = Discard(processing_tasks, t, "done")
            /\ downstream' = [downstream EXCEPT ![t] = 0]
            /\ UNCHANGED out_history
    /\ UNCHANGED <<worker, analyzer, w_is_running, w_subscribed, nInputs, dropped,
                   speech_history, w_stop, cleanups>>
    /\ UNCHANGED offWk

\* a task cancelled by stop() takes its CancelledError at its suspension point; the
\* gather it awaited cancels the handler tasks
task_cancelled(t) ==
    /\ t \in w_stop.cancel
    /\ t \in Unfinished
    /\ tasks' = [tasks EXCEPT ![t] = "cancelled"]
    /\ processing_tasks' = Discard(processing_tasks, t, "cancelled")
    /\ downstream' = [downstream EXCEPT ![t] = 0]
    /\ UNCHANGED <<worker, analyzer, w_is_running, w_subscribed, nInputs, dropped, out_history,
                   speech_history, w_stop, cleanups>>
    /\ UNCHANGED offWk

\* stop(): is_running = False, then the wait for the tasks in processing_tasks; with
\* no task it goes on to unsubscribe and to the analyzer's cleanup()
worker_stop ==
    /\ worker \in Workers
    /\ w_subscribed
    /\ w_stop.pc = "idle"
    /\ w_is_running' = FALSE
    /\ IF processing_tasks = {}
       THEN /\ w_subscribed' = FALSE
            /\ cleanups' = Append(cleanups, Unfinished)
            /\ w_stop' = [w_stop EXCEPT !.pc = "done"]
       ELSE /\ w_stop' = [w_stop EXCEPT !.pc = "waiting", !.snap = processing_tasks]
            /\ UNCHANGED <<w_subscribed, cleanups>>
    /\ UNCHANGED <<worker, analyzer, downstream, tasks, processing_tasks, nInputs, dropped, out_history,
                   speech_history>>
    /\ UNCHANGED offWk

\* every awaited task has ended: unsubscribe, then the analyzer's cleanup()
worker_stop_finish ==
    /\ w_stop.pc \in {"waiting", "cancel_wait"}
    /\ w_stop.snap \cap Unfinished = {}
    /\ w_subscribed' = FALSE
    /\ cleanups' = Append(cleanups, Unfinished)
    /\ w_stop' = [w_stop EXCEPT !.pc = "done"]
    /\ UNCHANGED <<worker, analyzer, downstream, w_is_running, tasks, processing_tasks, nInputs, dropped,
                   out_history, speech_history>>
    /\ UNCHANGED offWk

\* VAD and diarization: asyncio.wait times out after 2 * chunk_timeout and the
\* pending tasks are cancelled; ASRWorker.stop gathers without a timeout
worker_stop_timeout ==
    /\ worker \in {"vad", "diarization"}
    /\ w_stop.pc = "waiting"
    /\ w_stop.snap \cap Unfinished # {}
    /\ w_stop' = [w_stop EXCEPT !.pc = "cancel_wait", !.cancel = w_stop.snap \cap Unfinished]
    /\ UNCHANGED <<worker, analyzer, downstream, w_is_running, w_subscribed, tasks,
                   processing_tasks, nInputs,
                   dropped, out_history, speech_history, cleanups>>
    /\ UNCHANGED offWk

TaskStart == \E t \in InputIds : task_start(t)

TaskResult ==
    \E t \in InputIds, outcome \in {"ok", "raise", "timeout"}, is_speech \in BOOLEAN :
        task_result(t, outcome, is_speech)

HandlerTaskDone == \E t \in InputIds : handler_task_done(t)

TaskPublished == \E t \in InputIds : task_published(t)

TaskPublishRaised == \E t \in InputIds : task_publish_raised(t)

TaskCancelled == \E t \in InputIds : task_cancelled(t)

WorkerNext ==
    \/ worker_start
    \/ handle_input
    \/ TaskStart
    \/ TaskResult
    \/ HandlerTaskDone
    \/ TaskPublished
    \/ TaskPublishRaised
    \/ TaskCancelled
    \/ worker_stop
    \/ worker_stop_finish
    \/ worker_stop_timeout

\* one worker alone; the aggregator stays as constructed
WorkerInit == InitAggregator /\ InitWorker /\ InitBus /\ InitSessions /\ InitWs /\ InitLifecycle /\ InitPipe

WorkerSpec == WorkerInit /\ [][WorkerNext]_vars

\* ------------------------------------------------------- AsyncEventBus
\* _subscribers.get(event_name, set())
GetSubscribers(reg, t) == IF t \in DOMAIN reg THEN reg[t] ELSE {}

\* _subscribers[event_name].add(handler) on the defaultdict(set)
Subscribe(reg, t, h) ==
    IF t \in DOMAIN reg THEN [reg EXCEPT ![t] = @ \cup {h}]
    ELSE [x \in DOMAIN reg \cup {t} |-> IF x = t THEN {h} ELSE reg[x]]

\* variant: the whole entry of the event name is deleted
Unsubscribe_whole_entry(reg, t, h) ==
    [x \in DOMAIN reg \ {t} |-> reg[x]]

\* discard(handler), and an entry left empty is deleted
Unsubscribe(reg, t, h) ==
    IF t \notin DOMAIN reg THEN reg
    ELSE IF reg[t] \ {h} = {} THEN [x \in DOMAIN reg \ {t} |-> reg[x]]
    ELSE [reg EXCEPT ![t] = @ \ {h}]

\* _event_history.append(event), dropping the oldest beyond _max_history_size
AppendHistory(hist, t) ==
    IF Len(hist) + 1 > max_history_size THEN Tail(Append(hist, t)) ELSE Append(hist, t)

PubIds == 1..Len(pubs)

\* the handler tasks of publish p that have not ended
Pending(p) == {h \in pubs[p].snap : pubs[p].st[h] # "done"}

\* variant: the live registry, not the copy taken by publish, decides who runs
HasTask_live(p, h) == h \in GetSubscribers(subscribers, pubs[p].topic)

\* publish p created a task for handler h
HasTask(p, h) == h \in pubs[p].snap

\* variant: an exception of the handler reaches the publisher
safe_handler_call_reraise(rec, h, outcome) ==
    [rec EXCEPT !.st[h] = "done",
                !.pc = IF outcome = "raise" THEN "failed" ELSE @]

\* _safe_handler_call: the handler's exception is logged, the task ends normally
safe_handler_call(rec, h, outcome) ==
    [rec EXCEPT !.st[h] = "done",
                !.errors = IF outcome = "raise" THEN @ \cup {h} ELSE @]

\* async with self._lock, entry: the lock is taken
lock_acquire(l) == "held"

\* async with self._lock, exit: the lock is released
lock_release(l) == "free"

\* variant: the block under the lock extends over the await of gather
LockAtDispatch_inside(l) == l

\* the lock when publish creates the handler tasks and awaits gather: the block
\* under the lock ends with the copy of the subscriber set
LockAtDispatch(l) == lock_release(l)

\* publish(): under the lock the history and the copy of the subscriber set, then,
\* the lock released, one task per handler and the await of gather; with no
\* subscriber it returns at once
bus_publish(t) ==
    /\ Len(pubs) < MaxPublishes
    /\ bus_lock = "free"
    /\ bus_lock' = LockAtDispatch(lock_acquire(bus_lock))
    /\ event_history' = AppendHistory(event_history, t)
    /\ LET snap == GetSubscribers(subscribers, t) IN
       pubs' = Append(pubs, [topic |-> t,
                             snap |-> snap,
                             st |-> [h \in Handlers |-> "none"],
                             calls |-> [h \in Handlers |-> 0],
                             errors |-> {},
                             pc |-> IF snap = {} THEN "returned" ELSE "gather"])
    /\ UNCHANGED subscribers
    /\ UNCHANGED offBus

\* a handler task takes its first step: the handler is called with the event
handler_begin(p, h) ==
    /\ HasTask(p, h)
    /\ pubs[p].st[h] = "none"
    /\ pubs' = [pubs EXCEPT ![p].st[h] = "running", ![p].calls[h] = @ + 1]
    /\ UNCHANGED <<subscribers, event_history, bus_lock>>
    /\ UNCHANGED offBus

\* the handler returns or raises
handler_end(p, h, outcome) ==
    /\ pubs[p].st[h] = "running"
    /\ pubs' = [pubs EXCEPT ![p] = safe_handler_call(pubs[p], h, outcome)]
    /\ UNCHANGED <<subscribers, event_history, bus_lock>>
    /\ UNCHANGED offBus

\* gather is over: publish returns
publish_return(p) ==
    /\ pubs[p].pc = "gather"
    /\ Pending(p) = {}
    /\ pubs' = [pubs EXCEPT ![p].pc = "returned"]
    /\ UNCHANGED <<subscribers, event_history, bus_lock>>
    /\ UNCHANGED offBus

\* subscribe(): the handler is added under the lock
bus_subscribe(t, h) ==
    /\ bus_lock = "free"
    /\ bus_lock' = lock_release(lock_acquire(bus_lock))
    /\ subscribers' = Subscribe(subscribers, t, h)
    /\ UNCHANGED <<event_history, pubs>>
    /\ UNCHANGED offBus

\* unsubscribe(): the handler is removed under the lock
bus_unsubscribe(t, h) ==
    /\ bus_lock = "free"
    /\ bus_lock' = lock_release(lock_acquire(bus_lock))
    /\ subscribers' = Unsubscribe(subscribers, t, h)
    /\ UNCHANGED <<event_history, pubs>>
    /\ UNCHANGED offBus

BusPublish == \E t \in BusTopics : bus_publish(t)

HandlerBegin == \E p \in PubIds, h \in Handlers : handler_begin(p, h)

HandlerEnd == \E p \in PubIds, h \in Handlers, outcome \in {"ok", "raise"} : handler_end(p, h, outcome)

PublishReturn == \E p \in PubIds : publish_return(p)

BusSubscribe == \E t \in BusTopics, h \in Handlers : bus_subscribe(t, h)

BusUnsubscribe == \E t \in BusTopics, h \in Handlers : bus_unsubscribe(t, h)

BusNext ==
    \/ BusPublish
    \/ HandlerBegin
    \/ HandlerEnd
    \/ PublishReturn
    \/ BusSubscribe
    \/ BusUnsubscribe

\* the bus alone, with the aggregator and the workers as constructed
BusInit == InitAggregator /\ NoWorker /\ InitBus /\ InitSessions /\ InitWs /\ InitLifecycle /\ InitPipe

BusSpec == BusInit /\ [][BusNext]_vars

\* ------------------------------------------------------ SessionManager
\* the record create_session stores; gen numbers the create_session calls
NewSession(gen) ==
    [status |-> "active", chunk_counter |-> 0, total_chunks |-> 0,
     total_audio_bytes |-> 0, gen |-> gen]

\* session_id in self.sessions
Present(sid) == sessions[sid] # NoSession

\* create_session(): uuid4().hex[:8] is whatever value the generator gives; the
\* record is stored under it without a look at the table
create_session(sid) ==
    /\ nCreates < MaxCreates
    /\ nCreates' = nCreates + 1
    /\ sessions' = [sessions EXCEPT ![sid] = NewSession(nCreates + 1)]
    /\ overwrites' = IF Present(sid) THEN overwrites \cup {nCreates + 1} ELSE overwrites
    /\ UNCHANGED <<timers, nEnds, removals, allocs, sm_errors>>

\* the session table after the counter of sid was handed out
Allocated(tbl, sid) ==
    [tbl EXCEPT ![sid].chunk_counter = @ + 1, ![sid].total_chunks = @ + 1]

\* the value get_next_chunk_id returns for sid, as logged in allocs
AllocRecord(sid) ==
    [sid |-> sid, chunk_id |-> sessions[sid].chunk_counter, epoch |-> removals[sid]]

\* get_next_chunk_id(): the current counter is returned and incremented; an unknown
\* session raises SessionManagerError
get_next_chunk_id(sid) ==
    /\ Len(allocs) + sm_errors < MaxAllocs
    /\ IF ~Present(sid)
       THEN /\ sm_errors' = sm_errors + 1
            /\ UNCHANGED <<sessions, allocs>>
       ELSE /\ allocs' = Append(allocs, AllocRecord(sid))
            /\ sessions' = Allocated(sessions, sid)
            /\ UNCHANGED sm_errors
    /\ UNCHANGED <<timers, nCreates, nEnds, removals, overwrites>>

\* end_session(): status = "ended" and a task that deletes the record later
end_session(sid) ==
    /\ IF Present(sid)
       THEN /\ nEnds < MaxEnds
            /\ nEnds' = nEnds + 1
            /\ sessions' = [sessions EXCEPT ![sid].status = "ended"]
            /\ timers' = [timers EXCEPT ![sid] = @ + 1]
       ELSE UNCHANGED <<sessions, timers, nEnds>>
    /\ UNCHANGED <<nCreates, removals, allocs, overwrites, sm_errors>>

\* _cleanup_session_later() after its sleep
cleanup_session_later(sid) ==
    /\ timers[sid] > 0
    /\ timers' = [timers EXCEPT ![sid] = @ - 1]
    /\ IF Present(sid)
       THEN /\ sessions' = [sessions EXCEPT ![sid] = NoSession]
            /\ removals' = [removals EXCEPT ![sid] = @ + 1]
       ELSE UNCHANGED <<sessions, removals>>
    /\ UNCHANGED <<nCreates, nEnds, allocs, overwrites, sm_errors>>

CreateSession == \E sid \in SessionIds : create_session(sid) /\ UNCHANGED offSm

GetNextChunkId == \E sid \in SessionIds : get_next_chunk_id(sid) /\ UNCHANGED offSm

EndSession == \E sid \in SessionIds : Present(sid) /\ end_session(sid) /\ UNCHANGED offSm

CleanupSessionLater == \E sid \in SessionIds : cleanup_session_later(sid) /\ UNCHANGED offSm

SessionNext ==
    \/ CreateSession
    \/ GetNextChunkId
    \/ EndSession
    \/ CleanupSessionLater

\* the session manager alone, called by any number of callers
SessionInit == InitAggregator /\ NoWorker /\ InitBus /\ InitSessions /\ InitWs /\ InitLifecycle /\ InitPipe

SessionSpec == SessionInit /\ [][SessionNext]_vars

\* ---------------------------------- WebSocketManager and WebSocketHandler
\* The read loop is modelled for binary frames and disconnects; text commands
\* (one send_response each) and WebSocketHandler.stop() are left out. Two websockets
\* are interchangeable, so the second connects only after the first.
\* update_session(session_id, {"total_audio_bytes": current + n})
update_session(tbl, sid, n) ==
    IF tbl[sid] # NoSession THEN [tbl EXCEPT ![sid].total_audio_bytes = @ + n] ELSE tbl

\* WebSocketManager.get_connection: the websocket registered for the session, 0 = none
get_connection_other(sid) ==
    IF connections[sid] # 0 THEN connections[sid]
    ELSE IF \E s \in SessionIds : connections[s] # 0
         THEN connections[CHOOSE s \in SessionIds : connections[s] # 0]
         ELSE 0

get_connection(sid) == connections[sid]

\* the chunk_received acknowledgement of handle_audio_data, variant with a shifted id
ChunkReceived_shifted(chunk_id, size) ==
    [type |-> "chunk_received", chunk_id |-> chunk_id + 1, size |-> size]

ChunkReceived(chunk_id, size) ==
    [type |-> "chunk_received", chunk_id |-> chunk_id, size |-> size]

\* len(data) > self.max_audio_chunk_size, variant that also rejects the largest size
\* handle_audio_data returns at once for a frame without bytes
\* variant: no frame is taken for empty
Empty_never(n) == FALSE

Empty(n) == n = 0

TooLarge_inclusive(n) == n >= max_audio_chunk_size

TooLarge(n) == n > max_audio_chunk_size

\* f"Audio chunk too large: {len(data)} bytes (max: {self.max_audio_chunk_size})"
TooLargeError(n) ==
    [type |-> "error",
     message |-> <<"Audio chunk too large: ", ToString(n), " bytes (max: ",
                   ToString(max_audio_chunk_size), ")">>]

\* f"Failed to process audio data: {str(e)}", e being the exception caught
ProcessingError(e) ==
    [type |-> "error", message |-> <<"Failed to process audio data: ", e>>]

\* a message handed to websocket.send_text on websocket ws; frame numbers the binary
\* frame of that websocket the read loop is handling (0: none)
Message(ws, body, frame) == [ws |-> ws, body |-> body, frame |-> frame]

\* websocket.send_text is called: the send is in progress until it returns or raises
BeginSend(ws, body, frame) ==
    /\ sent' = [sent EXCEPT ![ws] = Append(@, Message(ws, body, frame))]
    /\ sending' = [sending EXCEPT ![ws] = @ + 1]

\* how a send on websocket ws may end: a websocket that failed once fails again
SendOutcomes(ws) == IF broken[ws] THEN {FALSE} ELSE BOOLEAN

\* handle_disconnect(): remove_connection and end_session
handle_disconnect(sid) ==
    /\ connections' = [connections EXCEPT ![sid] = 0]
    /\ end_session(sid)

\* WebSocketHandler.start(): subscribe to chunk_complete
ws_start ==
    /\ ~ws_is_running
    /\ ws_subscribed' = TRUE
    /\ ws_is_running' = TRUE
    /\ UNCHANGED <<connections, conn, sending, broken, sent, hcc, audio_events,
                   cc_events, frames>>
    /\ UNCHANGED smVars

\* handle_connection(): accept, create_session, add_connection, welcome message
handle_connection(c, sid) ==
    /\ conn[c].pc = "new"
    /\ \A c2 \in Conns : c2 < c => conn[c2].pc # "new"
    /\ create_session(sid)
    /\ connections' = [connections EXCEPT ![sid] = c]
    /\ conn' = [conn EXCEPT ![c].pc = "welcome", ![c].sid = sid]
    /\ BeginSend(c, [type |-> "connection_established", session_id |-> sid], 0)
    /\ UNCHANGED <<ws_is_running, ws_subscribed, broken, hcc, audio_events, cc_events,
                   frames>>

\* binary frames received so far, on all websockets
NumFrames == Cardinality({x \in Conns \X (1..MaxFrames) : x[2] <= Len(frames[x[1]])})

\* handle_audio_data() for a binary frame of n bytes, up to its first suspension point
receive_bytes(c, n) ==
    /\ conn[c].pc = "reading"
    /\ NumFrames < MaxFrames
    /\ LET sid == conn[c].sid
           f == Len(frames[c]) + 1
       IN
       IF Empty(n)
       THEN /\ frames' = [frames EXCEPT ![c] = Append(@, [sid |-> sid, len |-> n, accepted |-> FALSE])]
            /\ UNCHANGED <<conn, sending, sent, audio_events>>
            /\ UNCHANGED smVars
       ELSE IF TooLarge(n)
       THEN /\ frames' = [frames EXCEPT ![c] = Append(@, [sid |-> sid, len |-> n, accepted |-> FALSE])]
            /\ conn' = [conn EXCEPT ![c].pc = "error", ![c].frame = f]
            /\ BeginSend(c, TooLargeError(n), f)
            /\ UNCHANGED audio_events
            /\ UNCHANGED smVars
       ELSE /\ Len(allocs) + sm_errors < MaxAllocs
            /\ frames' = [frames EXCEPT ![c] = Append(@, [sid |-> sid, len |-> n,
                                                           accepted |-> Present(sid)])]
            /\ IF ~Present(sid)
               THEN /\ sm_errors' = sm_errors + 1
                    /\ conn' = [conn EXCEPT ![c].pc = "error", ![c].frame = f]
                    /\ BeginSend(c, ProcessingError("Session not found"), f)
                    /\ UNCHANGED <<sessions, allocs, audio_events>>
               ELSE LET chunk_id == sessions[sid].chunk_counter IN
                    /\ allocs' = Append(allocs, AllocRecord(sid))
                    /\ sessions' = update_session(Allocated(sessions, sid), sid, n)
                    /\ audio_events' = [audio_events EXCEPT ![c] = Append(@,
                           [session_id |-> sid, chunk_id |-> chunk_id, data |-> <<c, f>>,
                            correlation_id |-> CorrelationId(sid, chunk_id)])]
                    /\ conn' = [conn EXCEPT ![c].pc = "publishing", ![c].frame = f,
                                            ![c].chunk_id = chunk_id]
                    /\ UNCHANGED <<sending, sent, sm_errors>>
            /\ UNCHANGED <<timers, nCreates, nEnds, removals, overwrites>>
    /\ UNCHANGED <<ws_is_running, ws_subscribed, connections, broken, hcc, cc_events>>

\* the publish of audio_chunk_received returned: the acknowledgement is sent
publish_returned(c) ==
    /\ conn[c].pc = "publishing"
    /\ BeginSend(c, ChunkReceived(conn[c].chunk_id, frames[c][conn[c].frame].len), conn[c].frame)
    /\ conn' = [conn EXCEPT ![c].pc = "ack"]
    /\ UNCHANGED <<ws_is_running, ws_subscribed, connections, broken, hcc, audio_events,
                   cc_events, frames>>
    /\ UNCHANGED smVars

\* websocket.disconnect is received: the loop ends and its finally runs
receive_disconnect(c) ==
    /\ conn[c].pc = "reading"
    /\ handle_disconnect(conn[c].sid)
    /\ conn' = [conn EXCEPT ![c].pc = "closed"]
    /\ UNCHANGED <<ws_is_running, ws_subscribed, sending, broken, sent, hcc, audio_events,
                   cc_events, frames>>

\* a send of the connection's own coroutine returns
send_returned(c) ==
    /\ conn[c].pc \in {"welcome", "ack", "error", "error_again"}
    /\ ~broken[c]
    /\ sending' = [sending EXCEPT ![c] = @ - 1]
    /\ conn' = [conn EXCEPT ![c].pc = "reading", ![c].frame = 0]
    /\ UNCHANGED <<ws_is_running, ws_subscribed, connections, broken, sent, hcc,
                   audio_events, cc_events, frames>>
    /\ UNCHANGED smVars

\* a send of the connection's own coroutine raises: send_response turns it into
\* WebSocketHandlerError. In handle_audio_data the except clause sends an error
\* message; when that raises too the read loop ends and its finally calls
\* handle_disconnect; from the welcome message the error leaves handle_connection
\* without any cleanup
send_raised(c) ==
    /\ conn[c].pc \in {"welcome", "ack", "error", "error_again"}
    /\ broken' = [broken EXCEPT ![c] = TRUE]
    /\ IF conn[c].pc \in {"ack", "error"}
       THEN /\ sent' = [sent EXCEPT ![c] = Append(@,
                        Message(c, ProcessingError("Failed to send response"), conn[c].frame))]
            /\ conn' = [conn EXCEPT ![c].pc = "error_again"]
            /\ UNCHANGED <<sending, connections>>
            /\ UNCHANGED smVars
       ELSE IF conn[c].pc = "welcome"
       THEN /\ sending' = [sending EXCEPT ![c] = @ - 1]
            /\ conn' = [conn EXCEPT ![c].pc = "failed"]
            /\ UNCHANGED <<sent, connections>>
            /\ UNCHANGED smVars
       ELSE /\ sending' = [sending EXCEPT ![c] = @ - 1]
            /\ conn' = [conn EXCEPT ![c].pc = "closed"]
            /\ handle_disconnect(conn[c].sid)
            /\ UNCHANGED sent
    /\ UNCHANGED <<ws_is_running, ws_subscribed, hcc, audio_events, cc_events, frames>>

\* _handle_chunk_complete() up to the send: sid = "" is an event without session_id
handle_chunk_complete(sid, chunk_id) ==
    /\ ws_subscribed
    /\ Len(cc_events) < MaxCompletes
    /\ chunk_id = Len(cc_events)
    /\ cc_events' = Append(cc_events, [session_id |-> sid, chunk_id |-> chunk_id])
    /\ IF sid = ""
       THEN UNCHANGED <<sent, sending, hcc>>
       ELSE IF get_connection(sid) = 0
       THEN UNCHANGED <<sent, sending, hcc>>
       ELSE LET ws == get_connection(sid) IN
            /\ BeginSend(ws, [type |-> "processing_complete", session_id |-> sid,
                              chunk_id |-> chunk_id], 0)
            /\ hcc' = hcc \cup {[ev |-> Len(cc_events) + 1, ws |-> ws]}
    /\ UNCHANGED <<ws_is_running, ws_subscribed, connections, conn, broken, audio_events,
                   frames>>
    /\ UNCHANGED smVars

\* the handler's send returns, or raises: broadcast_to_session raises
\* WebSocketManagerError, which _handle_chunk_complete logs
chunk_complete_sent(h, ok) ==
    /\ h \in hcc
    /\ ok \in SendOutcomes(h.ws)
    /\ hcc' = hcc \ {h}
    /\ sending' = [sending EXCEPT ![h.ws] = @ - 1]
    /\ broken' = IF ok THEN broken ELSE [broken EXCEPT ![h.ws] = TRUE]
    /\ UNCHANGED <<ws_is_running, ws_subscribed, connections, conn, sent, audio_events,
                   cc_events, frames>>
    /\ UNCHANGED smVars

HandleConnection == \E c \in Conns, sid \in SessionIds : handle_connection(c, sid) /\ UNCHANGED offWs

ReceiveBytes == \E c \in Conns, n \in 0..(max_audio_chunk_size + 1) : receive_bytes(c, n) /\ UNCHANGED offWs

PublishReturned == \E c \in Conns : publish_returned(c) /\ UNCHANGED offWs

ReceiveDisconnect == \E c \in Conns : receive_disconnect(c) /\ UNCHANGED offWs

SendReturned == \E c \in Conns : send_returned(c) /\ UNCHANGED offWs

SendRaised == \E c \in Conns : send_raised(c) /\ UNCHANGED offWs

HandleChunkComplete ==
    \E sid \in SessionIds \cup {""}, chunk_id \in 0..MaxCompletes :
        handle_chunk_complete(sid, chunk_id) /\ UNCHANGED offWs

ChunkCompleteSent == \E h \in hcc, ok \in BOOLEAN : chunk_complete_sent(h, ok) /\ UNCHANGED offWs

WsCleanupSessionLater ==
    \E sid \in SessionIds : cleanup_session_later(sid) /\ UNCHANGED wsVars /\ UNCHANGED offWs

WsStart == ws_start /\ UNCHANGED offWs

WsNext ==
    \/ WsStart
    \/ HandleConnection
    \/ ReceiveBytes
    \/ PublishReturned
    \/ ReceiveDisconnect
    \/ SendReturned
    \/ SendRaised
    \/ HandleChunkComplete
    \/ ChunkCompleteSent
    \/ WsCleanupSessionLater

\* the websocket handler with its managers; aggregator, workers and bus as constructed
WsInit == InitAggregator /\ NoWorker /\ InitBus /\ InitSessions /\ InitWs /\ InitLifecycle /\ InitPipe

WsSpec == WsInit /\ [][WsNext]_vars

\* --------------------------------------------------- container lifecycle
\* initialize_services: analyzers, workers, aggregator, WebSocket handler
InitOrder ==
    <<"vad_service", "asr_service", "diarization_service",
      "vad_worker", "asr_worker", "diarization_worker",
      "result_aggregator", "websocket_handler">>

\* cleanup_services: WebSocket handler, aggregator, workers, analyzers
CleanupOrder ==
    <<"websocket_handler", "result_aggregator",
      "diarization_worker", "asr_worker", "vad_worker",
      "diarization_service", "asr_service", "vad_service">>

ServiceKinds == {"vad_service", "asr_service", "diarization_service"}

WorkerKinds == {"vad_worker", "asr_worker", "diarization_worker"}

\* an object a provider has built: nothing initialized, not subscribed, not running
NewInstance(kind) ==
    [kind |-> kind, initialized |-> FALSE, subscribed |-> FALSE, is_running |-> FALSE,
     stop_calls |-> 0]

\* the workers, the aggregator and the WebSocket handler are providers.Factory: every
\* container.x() call builds an object, the last one in the table after the call.
Provide(tbl, kind) == Append(tbl, NewInstance(kind))

\* the object a container.x() call returned
Provided(tbl, kind) == Len(tbl) + 1

\* VADWorker and DiarizationWorker define set_event_bus; ASRWorker (workers/asr.py,
\* the class the container names) does not, so the call raises AttributeError
HasSetEventBus(kind) == kind # "asr_worker"

\* how one step of initialize_services may end. An analyzer's initialize() and a
\* start() may succeed or raise; a worker's start() raises when its analyzer's
\* initialize() or its subscribe raises
StartOutcomes(kind) ==
    IF kind \in ServiceKinds THEN {"ok", "initialize_raises"}
    ELSE IF kind \in WorkerKinds
    THEN IF HasSetEventBus(kind)
         THEN {"ok", "initialize_raises", "subscribe_raises"}
         ELSE {"no_set_event_bus"}
    ELSE {"ok", "subscribe_raises"}

\* the object after initialize() (analyzers) or start() ended with the outcome: a
\* worker initializes its analyzer, then subscribes, then sets is_running; a failed
\* start leaves it unsubscribed and not running
Started(inst, outcome) ==
    IF outcome = "ok"
    THEN [inst EXCEPT !.initialized = TRUE, !.subscribed = inst.kind \notin ServiceKinds,
                      !.is_running = inst.kind \notin ServiceKinds]
    ELSE IF outcome = "subscribe_raises" /\ inst.kind \in WorkerKinds
    THEN [inst EXCEPT !.initialized = TRUE]
    ELSE inst

\* the object after stop() (cleanup() for an analyzer) was called on it: the
\* aggregator and the WebSocket handler return at once when they are not running
Stopped(inst) ==
    IF inst.kind \in {"result_aggregator", "websocket_handler"} /\ ~inst.is_running
    THEN [inst EXCEPT !.stop_calls = @ + 1]
    ELSE [inst EXCEPT !.stop_calls = @ + 1, !.is_running = FALSE, !.subscribed = FALSE,
                      !.initialized = FALSE]

\* the step cleanup_services goes on with after step i ended with the outcome: every
\* step has its own try / except Exception
\* variant: an exception ends cleanup_services
AfterCleanupStep_abort(i, outcome) ==
    IF outcome = "raise" THEN Len(CleanupOrder) + 1 ELSE i + 1

AfterCleanupStep(i, outcome) == i + 1

\* ServiceLifecycleManager.__aenter__ calls initialize_services
lc_enter ==
    /\ lc.pc = "new"
    /\ lc' = [lc EXCEPT !.pc = "init", !.step = 1]
    /\ UNCHANGED <<instances, lc_log, lc_raised>>

\* one step of initialize_services: the provider call, then initialize() or
\* set_event_bus() and start(); an exception goes to the except clause, which calls
\* cleanup_services and raises again
initialize_step(outcome) ==
    /\ lc.pc = "init"
    /\ LET kind == InitOrder[lc.step]
           tbl == Provide(instances, kind)
           i == Provided(instances, kind)
       IN
       /\ outcome \in StartOutcomes(kind)
       /\ instances' = [tbl EXCEPT ![i] = Started(tbl[i], outcome)]
       /\ lc_log' = Append(lc_log, [phase |-> "init", kind |-> kind, outcome |-> outcome,
                                    inst |-> i])
       /\ IF outcome # "ok"
          THEN lc' = [lc EXCEPT !.pc = "failing"]
          ELSE IF lc.step = Len(InitOrder)
          THEN lc' = [lc EXCEPT !.pc = "ready"]
          ELSE lc' = [lc EXCEPT !.step = @ + 1]
    /\ UNCHANGED lc_raised

\* cleanup_services is called: by the except clause of initialize_services, or by
\* ServiceLifecycleManager.__aexit__
cleanup_begin ==
    /\ lc.pc \in {"failing", "ready"}
    /\ lc' = [pc |-> "cleanup", step |-> 1, failed |-> lc.pc = "failing"]
    /\ UNCHANGED <<instances, lc_log, lc_raised>>

\* one step of cleanup_services: the provider call and stop() or cleanup() on the
\* object it returned, which may raise; after the last step cleanup_services returns,
\* and initialize_services raises the exception it caught
cleanup_step(outcome) ==
    /\ lc.pc = "cleanup"
    /\ LET kind == CleanupOrder[lc.step]
           tbl == Provide(instances, kind)
           i == Provided(instances, kind)
           next == AfterCleanupStep(lc.step, outcome)
       IN
       /\ instances' = [tbl EXCEPT ![i] = Stopped(tbl[i])]
       /\ lc_log' = Append(lc_log, [phase |-> "cleanup", kind |-> kind,
                                    outcome |-> outcome, inst |-> i])
       /\ IF next > Len(CleanupOrder)
          THEN /\ lc' = [lc EXCEPT !.pc = "done"]
               /\ lc_raised' = IF lc.failed THEN lc_raised \cup {"initialize_services"}
                               ELSE lc_raised
          ELSE /\ lc' = [lc EXCEPT !.step = next]
               /\ UNCHANGED lc_raised

LcEnter == lc_enter /\ UNCHANGED offLc

InitializeStep ==
    \E outcome \in {"ok", "initialize_raises", "subscribe_raises", "no_set_event_bus"} :
        initialize_step(outcome) /\ UNCHANGED offLc

CleanupBegin == cleanup_begin /\ UNCHANGED offLc

CleanupStep == \E outcome \in {"ok", "raise"} : cleanup_step(outcome) /\ UNCHANGED offLc

LifecycleNext ==
    \/ LcEnter
    \/ InitializeStep
    \/ CleanupBegin
    \/ CleanupStep

\* the container alone: one ServiceLifecycleManager entered and left
LifecycleInit == InitAggregator /\ NoWorker /\ InitBus /\ InitSessions /\ InitWs /\ InitLifecycle /\ InitPipe

LifecycleSpec == LifecycleInit /\ [][LifecycleNext]_vars

\* ---------------------------------------------------- pipeline actions
\* the tasks of the worker that are in its processing_tasks
RunningTasks(w) == {c \in Chunks : p_task[w][c].st = "running"}

\* a worker's handler for its input event on chunk c: VADWorker._handle_audio_chunk,
\* ASRWorker._handle_speech_detected, DiarizationWorker._handle_speech_detected
Admit(tasks_w, w, c) ==
    IF ~p_wk[w].subscribed \/ (ChecksRunning(w) /\ ~p_wk[w].is_running)
    THEN tasks_w
    ELSE IF AtCapacity(Cardinality({d \in Chunks : tasks_w[d].st = "running"}))
    THEN [tasks_w EXCEPT ![c].st = "dropped"]
    ELSE [tasks_w EXCEPT ![c].st = "running"]

\* the topics VADWorker._publish_results publishes on: vad_completed always,
\* speech_detected only when the analyzer found speech
PublishedTopics(is_speech) ==
    IF is_speech THEN {"vad_completed", "speech_detected"} ELSE {"vad_completed"}

\* the message WebSocketHandler._handle_chunk_complete sends for a chunk_complete
Response(c, state, is_timeout) ==
    [type |-> "processing_complete",
     chunk_id |-> c,
     is_complete |-> is_complete(state),
     is_timeout |-> is_timeout,
     completed_components |-> state.completed,
     missing_components |-> get_missing_components(state)]

\* what the client has been sent after _publish_chunk_complete for the chunks of
\* the set, in the order of their ids: the handler sends only while it is
\* subscribed and the session has a connection
Delivered(results, cs, is_timeout) ==
    IF p_ws.subscribed /\ p_ws.connected
    THEN LET ids == SortedSeq(cs)
         IN results \o [i \in 1..Len(ids) |->
                            Response(ids[i], p_entry[ids[i]].state, is_timeout)]
    ELSE results

\* ResultAggregator._handle_component_completed for the component's result on
\* chunk c: the entry and the client's messages afterwards
Aggregated(c, component) ==
    IF ~p_agg.subscribed
    THEN [entry |-> p_entry[c], results |-> p_results]
    ELSE LET old == IF p_entry[c].open THEN p_entry[c]
                    ELSE [open |-> TRUE, state |-> NewState(c), age |-> 0]
             state == add_result(old.state, component, [ver |-> 1, ok |-> TRUE])
         IN IF is_complete(state)
            THEN [entry |-> NoEntry,
                  results |-> IF p_ws.subscribed /\ p_ws.connected
                              THEN Append(p_results, Response(c, state, FALSE))
                              ELSE p_results]
            ELSE [entry |-> [old EXCEPT !.state = state], results |-> p_results]

\* handle_audio_data for the session's next frame: the chunk id is allocated,
\* audio_chunk_received is published (the VAD worker's handler runs) and the
\* acknowledgement is sent
pipe_audio_data ==
    /\ p_ws.is_running
    /\ p_ws.connected
    /\ Len(p_acks) < PipeChunks
    /\ LET c == Len(p_acks)
       IN /\ p_acks' = Append(p_acks, c)
          /\ p_task' = [p_task EXCEPT !["vad"] = Admit(@, "vad", c)]
    /\ UNCHANGED <<p_ws, p_agg, p_wk, p_entry, p_results, p_shutdown>>

\* the VAD task of chunk c ends: _publish_results publishes vad_completed (the
\* aggregator's handler runs) and, for speech, speech_detected (the ASR and the
\* diarization worker's handlers run)
pipe_vad_done(c, is_speech) ==
    /\ p_task["vad"][c].st = "running"
    /\ LET agg == Aggregated(c, "vad")
           done == [p_task EXCEPT !["vad"][c] = [st |-> "done", is_speech |-> is_speech]]
       IN /\ p_entry' = [p_entry EXCEPT ![c] = agg.entry]
          /\ p_results' = agg.results
          /\ p_task' = IF "speech_detected" \in PublishedTopics(is_speech)
                       THEN [done EXCEPT !["asr"] = Admit(@, "asr", c),
                                         !["diarization"] = Admit(@, "diarization", c)]
                       ELSE done
    /\ UNCHANGED <<p_ws, p_agg, p_wk, p_acks, p_shutdown>>

\* the ASR or diarization task of chunk c ends and publishes its completed event
pipe_task_done(w, c) ==
    /\ w # "vad"
    /\ p_task[w][c].st = "running"
    /\ LET agg == Aggregated(c, w)
       IN /\ p_entry' = [p_entry EXCEPT ![c] = agg.entry]
          /\ p_results' = agg.results
    /\ p_task' = [p_task EXCEPT ![w][c].st = "done"]
    /\ UNCHANGED <<p_ws, p_agg, p_wk, p_acks, p_shutdown>>

\* time passes: every open entry grows older
pipe_tick ==
    /\ \E c \in Chunks : p_entry[c].open /\ ~is_expired(p_entry[c].age)
    /\ p_entry' = [c \in Chunks |->
                      IF p_entry[c].open /\ ~is_expired(p_entry[c].age)
                      THEN [p_entry[c] EXCEPT !.age = @ + 1]
                      ELSE p_entry[c]]
    /\ UNCHANGED <<p_ws, p_agg, p_wk, p_acks, p_task, p_results, p_shutdown>>

\* one round of the aggregator's sweeper: the expired entries are published with
\* is_timeout = True and removed
pipe_cleanup_expired ==
    /\ p_agg.is_running
    /\ LET expired == {c \in Chunks : p_entry[c].open /\ is_expired(p_entry[c].age)}
       IN /\ expired # {}
          /\ p_results' = Delivered(p_results, expired, TRUE)
          /\ p_entry' = [c \in Chunks |-> IF c \in expired THEN NoEntry ELSE p_entry[c]]
    /\ UNCHANGED <<p_ws, p_agg, p_wk, p_acks, p_task, p_shutdown>>

\* the chunks that were accepted and have no result yet, each with the kinds that
\* have not produced a result
PendingChunks ==
    {[chunk_id |-> c,
      missing |-> IF p_entry[c].open THEN get_missing_components(p_entry[c].state)
                  ELSE Kinds] :
        c \in {d \in Chunks : /\ d < Len(p_acks)
                              /\ \A i \in DOMAIN p_results : p_results[i].chunk_id # d}}

\* cleanup_services, first step: WebSocketHandler.stop disconnects every session and
\* drops the chunk_complete subscription
pipe_ws_stop ==
    /\ p_shutdown.stage = "up"
    /\ p_ws' = [is_running |-> FALSE, subscribed |-> FALSE, connected |-> FALSE]
    /\ p_shutdown' = [stage |-> "ws_stopped", pending |-> PendingChunks]
    /\ UNCHANGED <<p_agg, p_wk, p_acks, p_task, p_entry, p_results>>

\* second step: ResultAggregator.stop cancels the sweeper, flushes every open entry
\* with is_timeout = False and drops its subscriptions
pipe_agg_stop ==
    /\ p_shutdown.stage = "ws_stopped"
    /\ p_results' = Delivered(p_results, {c \in Chunks : p_entry[c].open}, FALSE)
    /\ p_entry' = [c \in Chunks |-> NoEntry]
    /\ p_agg' = [is_running |-> FALSE, subscribed |-> FALSE]
    /\ p_shutdown' = [p_shutdown EXCEPT !.stage = "agg_stopped"]
    /\ UNCHANGED <<p_ws, p_wk, p_acks, p_task>>

\* third to fifth step: the workers' stops, diarization, ASR, VAD. Each waits for
\* its tasks in flight (the VAD and diarization workers cancel what is left after a
\* bounded wait) and drops its subscription; what a task publishes meanwhile
\* reaches no handler, the aggregator and the later workers being unsubscribed
pipe_workers_stop ==
    /\ p_shutdown.stage = "agg_stopped"
    /\ p_wk' = [w \in Workers |-> [is_running |-> FALSE, subscribed |-> FALSE]]
    /\ p_task' = [w \in Workers |-> [c \in Chunks |->
                      IF p_task[w][c].st = "running"
                      THEN [p_task[w][c] EXCEPT !.st = "drained"]
                      ELSE p_task[w][c]]]
    /\ p_shutdown' = [p_shutdown EXCEPT !.stage = "down"]
    /\ UNCHANGED <<p_ws, p_agg, p_acks, p_entry, p_results>>

PipeAudioData == pipe_audio_data /\ UNCHANGED offPipe

PipeVadDone ==
    \E c \in Chunks, is_speech \in BOOLEAN : pipe_vad_done(c, is_speech) /\ UNCHANGED offPipe

PipeTaskDone ==
    \E w \in Workers, c \in Chunks : pipe_task_done(w, c) /\ UNCHANGED offPipe

PipeTick == pipe_tick /\ UNCHANGED offPipe

PipeCleanupExpired == pipe_cleanup_expired /\ UNCHANGED offPipe

PipeWsStop == pipe_ws_stop /\ UNCHANGED offPipe

PipeAggStop == pipe_agg_stop /\ UNCHANGED offPipe

PipeWorkersStop == pipe_workers_stop /\ UNCHANGED offPipe

PipeNext ==
    \/ PipeAudioData
    \/ PipeVadDone
    \/ PipeTaskDone
    \/ PipeTick
    \/ PipeCleanupExpired
    \/ PipeWsStop
    \/ PipeAggStop
    \/ PipeWorkersStop

PipeStart ==
    InitAggregator /\ NoWorker /\ InitBus /\ InitSessions /\ InitWs /\ InitLifecycle /\ InitPipe

PipeSpec == PipeStart /\ [][PipeNext]_vars

\* the scheduling of the event loop: a ready task runs, a sleeping task wakes, time advances
Fairness ==
    /\ WF_vars(Tick)
    /\ WF_vars(cleanup_scan)
    /\ WF_vars(cleanup_resume)
    /\ WF_vars(cleanup_cancelled)
    /\ WF_vars(flush_remaining_chunks)
    /\ WF_vars(flush_resume)
    /\ WF_vars(HandlerResume)

FairSpec == Init /\ [][Next]_vars /\ Fairness

\* ------------------------------------------------------- claim vocabulary
Created == 1..stats.chunks_processed

InTable(g) == \E k \in Keys : chunk_states[k] = g

HistFor(k) == {i \in DOMAIN history : history[i].key = k}

HistOf(g) == {i \in DOMAIN history : history[i].gen = g}

\* C1: for every (session, chunk) pair the aggregator handled a result for, exactly
\* one chunk_complete is published over the whole run (never a second one)
C1_ExactlyOncePerPair ==
    \A k \in Keys : Cardinality(HistFor(k)) <= 1

\* C2: every aggregation entry that was created and has left chunk_states was closed
\* with a chunk_complete published for it
C2_EveryEntryClosedWithPublish ==
    \A g \in Created : ~InTable(g) => HistOf(g) # {}

\* C2, liveness part: while the aggregator runs no entry stays Open forever
C2_NoEntryOpenForever ==
    \A g \in EventIds : InTable(g) ~> (~InTable(g) \/ ~is_running)

\* C3: when stop() returns, chunk_states is empty, the sweeper has ended, the
\* aggregator is unsubscribed, and every entry has had a chunk_complete, at most one
\* of them from the flush and that one with is_timeout = false
C3_StopLeavesNothingBehind ==
    stopper.pc = "done" =>
        /\ \A k \in Keys : chunk_states[k] = 0
        /\ sweeper.pc = "done"
        /\ subscriptions = {}
        /\ \A g \in Created :
              /\ HistOf(g) # {}
              /\ Cardinality({i \in HistOf(g) : history[i].by = "flush"}) <= 1
              /\ \A i \in HistOf(g) : history[i].by = "flush" => ~history[i].is_timeout

\* C4: when the sweeper's deadline close and the completing handler interleave on
\* one entry, only one of them publishes a chunk_complete for the entry: the handler
\* with (is_complete, ~is_timeout) or the sweeper with (~is_complete, is_timeout)
C4_SingleCloseUnderRace ==
    \A g \in Created :
        LET byHandler == {i \in HistOf(g) : history[i].by = "handler"}
            bySweeper == {i \in HistOf(g) : history[i].by = "sweeper"}
        IN /\ byHandler = {} \/ bySweeper = {}
           /\ \A i \in byHandler : history[i].is_complete /\ ~history[i].is_timeout
           /\ \A i \in bySweeper : ~history[i].is_complete /\ history[i].is_timeout

\* a step that handles a result of a kind the entry already holds
DuplicateHandled ==
    /\ nEvents' = nEvents + 1
    /\ \E g \in EventIds, c \in Kinds :
          /\ objs[g].results[c].ver >= 1
          /\ objs'[g].results[c].ver = objs[g].results[c].ver + 1

\* C5: a second result of a kind already received replaces the stored result, leaves
\* the set of completed components unchanged and publishes no chunk_complete
C5_DuplicateIsIdempotent ==
    [][DuplicateHandled =>
         /\ history' = history
         /\ \A g \in EventIds : objs'[g].completed = objs[g].completed]_vars

\* the result events published for input event t
ResultsOf(t) == {i \in DOMAIN out_history : out_history[i].ev = t}

\* C6: every input event a worker created a task for gets exactly one result event
\* on the worker's output topic, never two, and not zero once the task has ended
\* without being cancelled
C6_ExactlyOneResultPerTask ==
    \A t \in InputIds :
        /\ Cardinality(ResultsOf(t)) <= 1
        /\ tasks[t] = "done" => Cardinality(ResultsOf(t)) = 1

\* C7: processing_tasks never holds more than max_concurrent_tasks tasks, and an
\* event dropped at the limit has no task and no result event
C7_CapacityBound ==
    /\ Cardinality(processing_tasks) <= max_concurrent_tasks
    /\ \A e \in InputIds :
           dropped[e] = "at_capacity" =>
               /\ tasks[e] = "none"
               /\ e \notin processing_tasks
               /\ ResultsOf(e) = {}

C7_Witness ==
    /\ \E e \in InputIds : dropped[e] = "at_capacity"
    /\ Cardinality(processing_tasks) = max_concurrent_tasks
    /\ out_history # <<>>

\* C8: the analyzer's cleanup() is called only when no task of the worker is
\* unfinished, and no task is created between the start of stop() and that call
C8_QuiescentAtCleanup ==
    [][/\ cleanups' # cleanups => Unfinished' = {}
       /\ w_stop.pc \in {"waiting", "cancel_wait"} =>
              \A t \in InputIds : tasks[t] = "none" => tasks'[t] = "none"]_vars

\* C9: in every chunk_complete, completed and missing components partition
\* {vad, asr, diarization}, the keys of results are the completed components, and
\* is_complete holds exactly when nothing is missing
C9_PayloadPartition ==
    \A i \in DOMAIN history :
        LET e == history[i] IN
        /\ e.completed_components \cap e.missing_components = {}
        /\ e.completed_components \cup e.missing_components = Kinds
        /\ e.results = e.completed_components
        /\ e.is_complete <=> (e.missing_components = {})

C9_Witness ==
    \E i, j \in DOMAIN history :
        /\ history[i].is_complete
        /\ ~history[j].is_complete
        /\ history[j].completed_components # {}

\* C10: a chunk_complete of a chunk with a failed analyzer result (success = false)
\* has is_complete = false
C10_FailureMeansIncomplete ==
    \A i \in DOMAIN history : history[i].failed # {} => ~history[i].is_complete

\* ---------------------------------------------------- AsyncEventBus claims
\* C11: a publish calls exactly once every handler that was subscribed to the event
\* name when it copied the subscriber set, and no other handler, whatever is
\* subscribed or unsubscribed while the dispatch is in progress
C11_SnapshotDispatch ==
    \A p \in PubIds :
        /\ \A h \in Handlers : pubs[p].calls[h] <= 1
        /\ \A h \in Handlers : pubs[p].calls[h] = 1 => h \in pubs[p].snap
        /\ pubs[p].pc = "returned" => \A h \in pubs[p].snap : pubs[p].calls[h] = 1

C11_Witness ==
    \E p \in PubIds :
        LET live == GetSubscribers(subscribers, pubs[p].topic) IN
        /\ pubs[p].pc = "gather"
        /\ \A h \in pubs[p].snap : pubs[p].calls[h] = 1
        /\ pubs[p].snap \ live # {}
        /\ live \ pubs[p].snap # {}

\* a handler of publish p raised in this step
HandlerRaised(p) == pubs'[p].errors # pubs[p].errors

\* C12: when a handler raises, no exception reaches the publisher, the other
\* handlers of the dispatch are called and end on their own, and the subscriber
\* registry is unchanged
C12_HandlerFailureIsolated ==
    /\ [](\A p \in PubIds :
              /\ pubs[p].pc # "failed"
              /\ pubs[p].pc = "returned" =>
                     \A h \in pubs[p].snap : pubs[p].st[h] = "done" /\ pubs[p].calls[h] = 1)
    /\ [][\A p \in PubIds :
              HandlerRaised(p) =>
                  /\ subscribers' = subscribers
                  /\ \A h \in Handlers \ pubs'[p].errors : pubs'[p].st[h] = pubs[p].st[h]]_vars

C12_Witness ==
    \E p \in PubIds :
        /\ pubs[p].pc = "returned"
        /\ pubs[p].errors # {}
        /\ pubs[p].snap \ pubs[p].errors # {}

\* C13: publish returns once its handler tasks are created; it does not wait for
\* them to end
C13_PublishDoesNotWait ==
    \A p \in PubIds : pubs[p].pc = "gather" => ENABLED publish_return(p)

\* registration of h2 for t2 in a registry
Registered(reg, t2, h2) == h2 \in GetSubscribers(reg, t2)

\* C14: on every registry, subscribing twice equals subscribing once, subscribe then
\* unsubscribe leaves the handler unregistered, unsubscribing an unregistered
\* handler changes nothing, and no operation touches another handler or topic
C14_RegistrySetLaws ==
    \A t \in BusTopics, h \in Handlers :
        LET once == Subscribe(subscribers, t, h)
            twice == Subscribe(once, t, h)
            undone == Unsubscribe(once, t, h)
            removed == Unsubscribe(subscribers, t, h)
        IN /\ twice = once
           /\ Registered(once, t, h)
           /\ ~Registered(undone, t, h)
           /\ ~Registered(subscribers, t, h) => removed = subscribers
           /\ \A t2 \in BusTopics, h2 \in Handlers :
                  <<t2, h2>> # <<t, h>> =>
                      /\ Registered(once, t2, h2) <=> Registered(subscribers, t2, h2)
                      /\ Registered(undone, t2, h2) <=> Registered(subscribers, t2, h2)
                      /\ Registered(removed, t2, h2) <=> Registered(subscribers, t2, h2)

C14_Witness ==
    \E t \in BusTopics, t2 \in BusTopics :
        /\ GetSubscribers(subscribers, t) = Handlers
        /\ t2 \notin DOMAIN subscribers
        /\ \E p \in PubIds : pubs[p].topic = t2 /\ pubs[p].snap # {}

\* ----------------------------------------------------- SessionManager claims
\* the values returned for session id sid while its record stayed in the table
AllocsOf(sid, epoch) ==
    SelectSeq(allocs, LAMBDA a : a.sid = sid /\ a.epoch = epoch)

\* C15: the values get_next_chunk_id returns for a session are 0, 1, 2, ... in this
\* order, without gap or repetition
C15_ChunkIdsSequential ==
    \A sid \in SessionIds, epoch \in 0..MaxEnds :
        \A i \in 1..Len(AllocsOf(sid, epoch)) : AllocsOf(sid, epoch)[i].chunk_id = i - 1

\* C16: create_session never returns the id of a session that is still in the table,
\* so no record is overwritten and no two allocated chunks share (session_id, chunk_id)
C16_SessionIdIsFresh ==
    /\ overwrites = {}
    /\ \A i, j \in DOMAIN allocs :
           (i # j /\ allocs[i].sid = allocs[j].sid /\ allocs[i].epoch = allocs[j].epoch)
               => allocs[i].chunk_id # allocs[j].chunk_id

\* -------------------------------------------------- WebSocketHandler claims
\* C17: at no time are two sends in progress on the same websocket: the sends of the
\* read loop and the sends of the chunk_complete handler exclude each other
C17_SendsSerialized ==
    \A c \in Conns : sending[c] <= 1

\* the result messages sent so far, on any websocket, for the chunk_complete event
\* number i
ResultsFor(i) ==
    {x \in {<<c, k>> : c \in Conns, k \in 1..(MaxFrames + MaxCompletes + 2)} :
        /\ x[2] <= Len(sent[x[1]])
        /\ sent[x[1]][x[2]].body.type = "processing_complete"
        /\ sent[x[1]][x[2]].body.chunk_id = cc_events[i].chunk_id}

\* the step that handles one chunk_complete event
C18_Handled ==
    Len(cc_events') = Len(cc_events) + 1 =>
        LET ev == cc_events'[Len(cc_events')]
            sid == ev.session_id
        IN
        /\ connections' = connections
        /\ conn' = conn
        /\ smVars' = smVars
        /\ IF sid # "" /\ connections[sid] # 0
           THEN sent' = [sent EXCEPT ![connections[sid]] = Append(@,
                            Message(connections[sid],
                                    [type |-> "processing_complete", session_id |-> sid,
                                     chunk_id |-> ev.chunk_id], 0))]
           ELSE sent' = sent /\ sending' = sending /\ hcc' = hcc

SendFailureHandled(c) ==
    /\ broken[c]
    /\ conn[c].pc \notin {"error_again", "failed"}

\* C19: once a send on a websocket has failed, in the read loop or in the
\* chunk_complete handler, the websocket is no longer in the registry and its session
\* is no longer active, so a later chunk_complete finds no websocket to send on
C19_SendFailureTearsDown ==
    \A c \in Conns :
        SendFailureHandled(c) =>
            /\ \A sid \in SessionIds : connections[sid] # c
            /\ \/ sessions[conn[c].sid] = NoSession
               \/ sessions[conn[c].sid].status # "active"
               \/ \E c2 \in Conns \ {c} : conn[c2].sid = conn[c].sid

\* the positions in audio_events[c] of the events published for frame f of websocket c
EventsOf(c, f) ==
    {i \in DOMAIN audio_events[c] : audio_events[c][i].data = <<c, f>>}

\* the positions in sent[c] of the chunk_received acknowledgements sent for frame f
AcksOf(c, f) ==
    {i \in DOMAIN sent[c] : sent[c][i].frame = f /\ sent[c][i].body.type = "chunk_received"}

\* the step that receives a binary frame with 0 < len <= max_audio_chunk_size on a
\* session that is in the table
C20_Accepted ==
    \A c \in Conns :
        (/\ Len(frames'[c]) = Len(frames[c]) + 1
         /\ frames'[c][Len(frames'[c])].len \in 1..max_audio_chunk_size
         /\ Present(conn[c].sid))
        =>
        LET sid == conn[c].sid
            f == Len(frames'[c])
            n == frames'[c][f].len
            chunk_id == sessions[sid].chunk_counter
        IN
        /\ frames'[c][f].accepted
        /\ Len(allocs') = Len(allocs) + 1
        /\ allocs'[Len(allocs')].sid = sid
        /\ allocs'[Len(allocs')].chunk_id = chunk_id
        /\ sessions'[sid].chunk_counter = chunk_id + 1
        /\ sessions'[sid].total_audio_bytes = sessions[sid].total_audio_bytes + n
        /\ audio_events' = [audio_events EXCEPT ![c] = Append(@,
               [session_id |-> sid, chunk_id |-> chunk_id, data |-> <<c, f>>,
                correlation_id |-> <<sid, "_", chunk_id>>])]

\* C20: a binary frame with 0 < len <= max_audio_chunk_size on a session in the table
\* allocates exactly one chunk id, adds len to the session's byte counter and publishes
\* exactly one audio_chunk_received with the session id, the chunk id, the bytes of
\* the frame and the correlation id of the pair; no acknowledgement is sent before
\* the publish has returned, and then exactly one chunk_received with that chunk id
\* and size = len is sent on the websocket
C20_FrameAllocatedPublishedAcked ==
    /\ [](\A c \in Conns : \A f \in DOMAIN frames[c] :
            frames[c][f].accepted =>
                /\ Cardinality(EventsOf(c, f)) = 1
                /\ IF conn[c].pc = "publishing" /\ conn[c].frame = f
                   THEN AcksOf(c, f) = {}
                   ELSE /\ Cardinality(AcksOf(c, f)) = 1
                        /\ \A i \in AcksOf(c, f) : \A e \in EventsOf(c, f) :
                               sent[c][i].body =
                                   [type |-> "chunk_received",
                                    chunk_id |-> audio_events[c][e].chunk_id,
                                    size |-> frames[c][f].len])
    /\ [][C20_Accepted]_vars

\* a frame was accepted, published and acknowledged, and the read loop is back at
\* its receive
C20_Witness ==
    \E c \in Conns : \E f \in DOMAIN frames[c] :
        /\ frames[c][f].accepted
        /\ frames[c][f].len = max_audio_chunk_size
        /\ AcksOf(c, f) # {}
        /\ conn[c].pc = "reading"
        /\ sessions[conn[c].sid] # NoSession
        /\ sessions[conn[c].sid].total_audio_bytes >= max_audio_chunk_size

\* the message text, a sequence of pieces, contains "too large": the only piece the
\* handler writes with these words is the head of the size error
ContainsTooLarge(m) ==
    \E i \in DOMAIN m : m[i] = "Audio chunk too large: "

\* the positions in sent[c] of the "too large" errors sent for frame f
TooLargeErrorsOf(c, f) ==
    {i \in DOMAIN sent[c] :
        /\ sent[c][i].frame = f
        /\ sent[c][i].body.type = "error"
        /\ ContainsTooLarge(sent[c][i].body.message)}

\* the step that receives a binary frame at or above the size limit
C21_AtTheLimit ==
    \A c \in Conns :
        Len(frames'[c]) = Len(frames[c]) + 1 =>
            LET f == Len(frames'[c])
                n == frames'[c][f].len
            IN
            /\ (n = max_audio_chunk_size /\ Present(conn[c].sid)) =>
                   /\ frames'[c][f].accepted
                   /\ Len(allocs') = Len(allocs) + 1
                   /\ Len(audio_events'[c]) = Len(audio_events[c]) + 1
                   /\ sent' = sent
            /\ n > max_audio_chunk_size =>
                   /\ ~frames'[c][f].accepted
                   /\ Len(sent'[c]) = Len(sent[c]) + 1
                   /\ sent'[c][Len(sent'[c])].frame = f
                   /\ sent'[c][Len(sent'[c])].body.type = "error"
                   /\ ContainsTooLarge(sent'[c][Len(sent'[c])].body.message)
                   /\ audio_events' = audio_events
                   /\ allocs' = allocs
                   /\ sessions' = sessions

\* C21: a binary frame of exactly max_audio_chunk_size bytes is accepted; a frame of
\* more bytes is rejected: one error whose text contains "too large" is sent, no
\* acknowledgement is ever sent for it, no audio_chunk_received is published for it,
\* and the session's chunk counter and byte counter stay as they were
C21_SizeLimit ==
    /\ [](\A c \in Conns : \A f \in DOMAIN frames[c] :
            /\ frames[c][f].len > max_audio_chunk_size =>
                   /\ Cardinality(TooLargeErrorsOf(c, f)) = 1
                   /\ AcksOf(c, f) = {}
                   /\ EventsOf(c, f) = {}
            /\ frames[c][f].len <= max_audio_chunk_size => TooLargeErrorsOf(c, f) = {})
    /\ [][C21_AtTheLimit]_vars

\* one websocket has had a frame of max_audio_chunk_size bytes acknowledged and a
\* frame of one byte more rejected
C21_Witness ==
    \E c \in Conns : \E f, g \in DOMAIN frames[c] :
        /\ frames[c][f].len = max_audio_chunk_size
        /\ AcksOf(c, f) # {}
        /\ frames[c][g].len = max_audio_chunk_size + 1
        /\ TooLargeErrorsOf(c, g) # {}
        /\ conn[c].pc = "reading"

\* ----------------------------------------------------- sweeper claims
\* the sweeper publishes a chunk_complete in this step
SweeperPublishes ==
    /\ Len(history') = Len(history) + 1
    /\ history'[Len(history')].by = "sweeper"

\* the sweeper removes the entry under key k in this step
SweeperRemoves(k) ==
    /\ sweeper.pc = "pub"
    /\ sweeper' # sweeper
    /\ chunk_states[k] # 0
    /\ chunk_states'[k] = 0

\* what the sweeper publishes: is_timeout is set, and the payload says which kinds
\* were received and which are missing
C28_TimeoutPayload ==
    SweeperPublishes =>
        LET m == history'[Len(history')] IN
        /\ m.is_timeout
        /\ m.completed_components = objs[m.gen].completed
        /\ m.missing_components = Kinds \ m.completed_components
        /\ m.results = m.completed_components
        /\ (m.missing_components # {}) => ~m.is_complete

\* the sweeper publishes from its scan only for an entry older than the timeout
C28_PublishOnlyExpired ==
    (SweeperPublishes /\ sweeper.pc = "sleep") =>
        LET m == history'[Len(history')] IN
        /\ chunk_states[m.key] = m.gen
        /\ age[m.key] > AggTimeout

\* the sweeper removes only an entry older than the timeout
C28_RemoveOnlyExpired ==
    \A k \in Keys : SweeperRemoves(k) => age[k] > AggTimeout

\* C28: the sweeper closes an entry only when its age exceeds the aggregation timeout,
\* never earlier, and the chunk_complete it publishes for an incomplete entry has
\* is_timeout = true, is_complete = false, the received kinds as completed_components,
\* the other kinds as missing_components and results for the received kinds only
C28_SweeperClosesOnlyExpired ==
    /\ [][C28_TimeoutPayload]_vars
    /\ [][C28_PublishOnlyExpired]_vars
    /\ [][C28_RemoveOnlyExpired]_vars

\* ------------------------------------------------------- worker claims
\* the step that delivers an input event to a worker that is not running
C29_DeliveredWhileNotRunning ==
    (nInputs' = nInputs + 1 /\ ~w_is_running) =>
        /\ tasks' = tasks
        /\ processing_tasks' = processing_tasks
        /\ out_history' = out_history
        /\ speech_history' = speech_history

\* C29: an input event delivered to a worker that is not running is dropped: no task
\* is created for it, processing_tasks stays as it is, the analyzer is never called
\* for it and no result is published for it, whichever of the three workers it is
C29_NotRunningDropsInput ==
    /\ [][C29_DeliveredWhileNotRunning]_vars
    /\ [](\A e \in InputIds :
            dropped[e] = "not_running" => (tasks[e] = "none" /\ ResultsOf(e) = {}))

\* record r has the keys the result model requires of kind w, at their safe defaults
SafeDefaults(w, r) ==
    IF w = "vad"
    THEN /\ {"is_speech", "confidence"} \subseteq DOMAIN r
         /\ r.is_speech = FALSE
         /\ r.confidence = 0
    ELSE IF w = "asr"
    THEN /\ {"text", "confidence"} \subseteq DOMAIN r
         /\ r.text = ""
         /\ r.confidence = 0
    ELSE /\ {"speakers", "segments"} \subseteq DOMAIN r
         /\ r.speakers = <<>>
         /\ r.segments = <<>>

\* C30: when the analyzer call of an admitted chunk times out or raises, the worker
\* publishes one result with success = false whose payload has an error string
\* (naming the timeout, or the exception) and the required keys of its kind at their
\* safe defaults; the analyzer is called at most once for a chunk
C30_FailureResultHasSafeDefaults ==
    \A t \in InputIds :
        /\ analyzer[t].calls <= 1
        /\ analyzer[t].outcome \in {"raise", "timeout"} =>
               /\ Cardinality(ResultsOf(t)) = 1
               /\ \A i \in ResultsOf(t) :
                      /\ out_history[i].success = FALSE
                      /\ "error" \in DOMAIN out_history[i].result
                      /\ out_history[i].result.error =
                             (IF analyzer[t].outcome = "timeout" THEN "Processing timeout"
                              ELSE "exception")
                      /\ SafeDefaults(worker, out_history[i].result)

\* one analyzer call timed out, another raised, and both tasks have ended
C30_Witness ==
    \E t1, t2 \in InputIds :
        /\ analyzer[t1].outcome = "timeout"
        /\ analyzer[t2].outcome = "raise"
        /\ tasks[t1] = "done"
        /\ tasks[t2] = "done"
        /\ ResultsOf(t1) # {}
        /\ ResultsOf(t2) # {}

\* ------------------------------------------------------------------ C22
\* the steps cleanup_services has taken so far, in the order it took them
CleanupLog == SelectSeq(lc_log, LAMBDA e : e.phase = "cleanup")

\* C22: cleanup_services takes its steps in the reverse of the start order (WebSocket
\* handler, aggregator, the workers, the analyzers) and is total: whatever steps
\* raise, every later step still runs, all eight have run when it returns, and
\* cleanup_services itself is never among the functions that raised to the caller
C22_CleanupReverseAndTotal ==
    /\ \A i \in 1..Len(CleanupOrder) : CleanupOrder[i] = InitOrder[Len(InitOrder) + 1 - i]
    /\ Len(CleanupLog) <= Len(CleanupOrder)
    /\ \A i \in 1..Len(CleanupLog) : CleanupLog[i].kind = CleanupOrder[i]
    /\ lc.pc = "cleanup" => Len(CleanupLog) = lc.step - 1
    /\ lc.pc = "done" => Len(CleanupLog) = Len(CleanupOrder)
    /\ "cleanup_services" \notin lc_raised

\* cleanup_services has returned although its first and a middle step raised
C22_Witness ==
    /\ lc.pc = "done"
    /\ CleanupLog[1].outcome = "raise"
    /\ CleanupLog[4].outcome = "raise"
    /\ CleanupLog[8].outcome = "ok"

\* ------------------------------------------------------------------ C26
\* the objects initialize_services has started: their start() returned
StartedInstances ==
    {lc_log[j].inst : j \in {i \in DOMAIN lc_log :
                                /\ lc_log[i].phase = "init"
                                /\ lc_log[i].kind \notin ServiceKinds
                                /\ lc_log[i].outcome = "ok"}}

\* C26: when the lifecycle has ended, stop() has been called on every worker,
\* aggregator and WebSocket handler object that initialize_services started, and
\* none of them is still running or still subscribed to the bus
C26_StartedInstancesAreStopped ==
    lc.pc = "done" =>
        \A i \in StartedInstances :
            /\ instances[i].stop_calls > 0
            /\ ~instances[i].is_running
            /\ ~instances[i].subscribed

\* ------------------------------------------------------------------ C27
\* the steps initialize_services has taken so far
InitLog == SelectSeq(lc_log, LAMBDA e : e.phase = "init")

\* the first step of initialize_services on an object of the kind, 0 when there is none
InitStepOf(kind) ==
    IF \E i \in DOMAIN InitLog : InitLog[i].kind = kind
    THEN CHOOSE i \in DOMAIN InitLog : InitLog[i].kind = kind
    ELSE 0

\* initialize_services has ended, and no initialize() and no subscribe has failed
StartupEndedWithoutFailure ==
    /\ lc.pc # "new"
    /\ lc.pc # "init"
    /\ \A i \in DOMAIN InitLog : InitLog[i].outcome \notin {"initialize_raises", "subscribe_raises"}

\* C27: start-up is ordered leaves first. A worker that is subscribed has an
\* initialized analyzer, and a worker whose start() failed is unsubscribed and not
\* running; the aggregator's start comes after the three workers' successful starts
\* and the WebSocket handler's start comes last; and a start-up in which no
\* initialize() and no subscribe fails gets as far as the aggregator's and the
\* WebSocket handler's subscriptions
C27_StartupLeavesFirst ==
    /\ \A i \in DOMAIN instances :
          instances[i].kind \in WorkerKinds /\ instances[i].subscribed
              => instances[i].initialized
    /\ \A j \in DOMAIN InitLog :
          InitLog[j].kind \in WorkerKinds /\ InitLog[j].outcome # "ok"
              => /\ ~instances[InitLog[j].inst].subscribed
                 /\ ~instances[InitLog[j].inst].is_running
    /\ InitStepOf("result_aggregator") > 0 =>
          \A k \in WorkerKinds :
              /\ InitStepOf(k) > 0
              /\ InitStepOf(k) < InitStepOf("result_aggregator")
              /\ InitLog[InitStepOf(k)].outcome = "ok"
    /\ InitStepOf("websocket_handler") > 0 =>
          /\ InitStepOf("result_aggregator") > 0
          /\ InitStepOf("websocket_handler") = Len(InitLog)
    /\ StartupEndedWithoutFailure =>
          /\ InitStepOf("result_aggregator") > 0
          /\ InitStepOf("websocket_handler") > 0

\* ------------------------------------------------------------------ C23
\* the messages the client has been sent for the chunk
ResultsOfChunk(c) == {i \in DOMAIN p_results : p_results[i].chunk_id = c}

\* C23: when the stops have all been made, every chunk that was accepted and had
\* no result when they began has exactly one result message, with is_complete =
\* false, is_timeout = false and as missing the kinds that had produced no result
C23_ShutdownFlushReachesClient ==
    p_shutdown.stage = "down" =>
        \A x \in p_shutdown.pending :
            /\ Cardinality(ResultsOfChunk(x.chunk_id)) = 1
            /\ \A i \in ResultsOfChunk(x.chunk_id) :
                  /\ ~p_results[i].is_complete
                  /\ ~p_results[i].is_timeout
                  /\ p_results[i].missing_components = x.missing

\* ------------------------------------------------------------------ C24
\* every chunk has been sent, no task is in flight and no entry is open
PipeQuiescent ==
    /\ Len(p_acks) = PipeChunks
    /\ \A w \in Workers : RunningTasks(w) = {}
    /\ \A c \in Chunks : ~p_entry[c].open

\* C24: chunks sent back to back are acknowledged with the ids 0, 1, 2 in order,
\* and once the pipeline is quiescent (and was not stopped) each has a result: a
\* chunk with speech whose three tasks were admitted has one with all three kinds
\* and nothing missing, and a chunk whose VAD task was dropped at admission has one
\* with vad among the missing kinds
C24_DroppedChunksStillGetResult ==
    /\ \A i \in DOMAIN p_acks : p_acks[i] = i - 1
    /\ PipeQuiescent /\ p_shutdown.stage = "up" =>
          \A c \in Chunks :
              /\ ResultsOfChunk(c) # {}
              /\ (/\ p_task["vad"][c] = [st |-> "done", is_speech |-> TRUE]
                  /\ p_task["asr"][c].st = "done"
                  /\ p_task["diarization"][c].st = "done")
                     => \E i \in ResultsOfChunk(c) :
                           /\ p_results[i].is_complete
                           /\ p_results[i].completed_components = Kinds
              /\ p_task["vad"][c].st = "dropped"
                     => \E i \in ResultsOfChunk(c) :
                           "vad" \in p_results[i].missing_components

\* ------------------------------------------------------------------ C25
\* C25: a chunk for which VAD reported no speech has been handed to the ASR and the
\* diarization worker, and every result message for it was closed by completion:
\* is_complete = true and is_timeout = false; once the pipeline is quiescent (and
\* was not stopped) it has such a message
C25_NoSpeechStillCompletes ==
    \A c \in Chunks :
        p_task["vad"][c] = [st |-> "done", is_speech |-> FALSE] =>
            /\ p_task["asr"][c].st # "none"
            /\ p_task["diarization"][c].st # "none"
            /\ \A i \in ResultsOfChunk(c) :
                  p_results[i].is_complete /\ ~p_results[i].is_timeout
            /\ PipeQuiescent /\ p_shutdown.stage = "up" => ResultsOfChunk(c) # {}

\* ------------------------------------------------------------------ C31
\* C31: every event a worker has published for a chunk, its result event and its
\* speech_detected alike, carries the correlation id of the input event that
\* caused it, whether the analyzer call succeeded, raised or timed out
C31_CorrelationIdPreserved ==
    /\ \A i \in DOMAIN out_history :
          out_history[i].correlation_id = InputEvent(out_history[i].ev).correlation_id
    /\ \A i \in DOMAIN speech_history :
          speech_history[i].correlation_id = InputEvent(speech_history[i].ev).correlation_id

\* ------------------------------------------------------------------ C32
\* the speech_detected events published for input event t
SpeechOf(t) == {i \in DOMAIN speech_history : speech_history[i].ev = t}

\* the successful vad_completed events of t that report speech
SpeechResultsOf(t) ==
    {i \in ResultsOf(t) : /\ out_history[i].success
                          /\ "is_speech" \in DOMAIN out_history[i].result
                          /\ out_history[i].result.is_speech}

\* speech_detected is published in this step
C32_SpeechPublished == Len(speech_history') = Len(speech_history) + 1

C33_EmptyReceived ==
    \A c \in Conns :
        (/\ Len(frames'[c]) = Len(frames[c]) + 1
         /\ frames'[c][Len(frames'[c])].len = 0)
        =>
        /\ ~frames'[c][Len(frames'[c])].accepted
        /\ allocs' = allocs
        /\ sessions' = sessions
        /\ audio_events' = audio_events
        /\ sent' = sent
        /\ sending' = sending
        /\ conn' = conn

\* C33: a binary frame of length zero is not accepted and changes nothing: no chunk
\* id is allocated, the session's chunk counter and byte counter stay as they are,
\* no audio_chunk_received is published and no chunk_received is sent for it
C33_EmptyFrameChangesNothing ==
    /\ [](\A c \in Conns : \A f \in DOMAIN frames[c] :
            frames[c][f].len = 0 =>
                /\ ~frames[c][f].accepted
                /\ EventsOf(c, f) = {}
                /\ AcksOf(c, f) = {})
    /\ [][C33_EmptyReceived]_vars

\* an empty frame was received first, and the next frame of the websocket got the
\* chunk id 0 and was acknowledged
C33_Witness ==
    \E c \in Conns : \E f, g \in DOMAIN frames[c] :
        /\ f < g
        /\ frames[c][f].len = 0
        /\ frames[c][g].accepted
        /\ \E e \in EventsOf(c, g) : audio_events[c][e].chunk_id = 0
        /\ AcksOf(c, g) # {}

\* ------------------------------------------------------------------ C34
\* the positions in sent[c] of the error messages sent for frame f
ErrorsOf(c, f) ==
    {i \in DOMAIN sent[c] : sent[c][i].frame = f /\ sent[c][i].body.type = "error"}

\* C34: a binary frame of length zero is answered like every other violation of
\* 0 < len <= max_audio_chunk_size: an error message is sent for it, and the
\* connection goes on reading frames
C34_EmptyFrameAnsweredWithError ==
    \A c \in Conns : \A f \in DOMAIN frames[c] :
        (frames[c][f].len = 0 /\ conn[c].frame # f) =>
            /\ ErrorsOf(c, f) # {}
            /\ ~broken[c] => conn[c].pc \in {"reading", "publishing", "ack", "error", "closed"}

\* ------------------------------------------------------------------ C35
\* a processing_complete message is sent on websocket c in this step, for a chunk
\* whose audio_chunk_received the read loop of c has published
C35_ResultSent(c) ==
    /\ Len(sent'[c]) = Len(sent[c]) + 1
    /\ sent'[c][Len(sent'[c])].body.type = "processing_complete"
    /\ \E e \in DOMAIN audio_events[c] :
          /\ audio_events[c][e].session_id = sent'[c][Len(sent'[c])].body.session_id
          /\ audio_events[c][e].chunk_id = sent'[c][Len(sent'[c])].body.chunk_id

C36_Dispatching(p) ==
    \/ pubs[p].pc = "gather"
    \/ \E h \in Handlers : pubs[p].st[h] = "running"

\* C36: the bus lock is never held while a handler runs or while publish waits in
\* gather, so that a publish, subscribe or unsubscribe issued from inside a dispatch
\* is never blocked on the lock
C36_LockFreeWhileDispatching ==
    \A p \in PubIds : C36_Dispatching(p) =>
        /\ bus_lock = "free"
        /\ \A t \in BusTopics, h \in Handlers :
              ENABLED bus_subscribe(t, h) /\ ENABLED bus_unsubscribe(t, h)
        /\ Len(pubs) < MaxPublishes => \A t \in BusTopics : ENABLED bus_publish(t)

\* a second publish was made and has returned while a handler of the first publish
\* is still running
C36_Witness ==
    /\ Len(pubs) = 2
    /\ pubs[1].pc = "gather"
    /\ \E h \in Handlers : pubs[1].st[h] = "running"
    /\ pubs[2].pc = "returned"
    /\ pubs[2].snap # {}


\* the entries in the aggregation table
C37_OpenEntries == {k \in Keys : chunk_states[k] # 0}

\* C37: at every suspension point of the aggregator the number of open entries is the
\* number of entries created minus the closes counted as completed, timed out or partial
C37_OpenEqualsCreatedMinusClosed ==
    Cardinality(C37_OpenEntries) =
        stats.chunks_processed
          - (stats.chunks_completed + stats.chunks_timed_out + stats.chunks_partial)


\* a task started by an end_session(sid) call is still in its sleep: the grace period
\* of that call has not elapsed
C38_InGracePeriod(sid) == timers[sid] > 0

\* an end_session or a _cleanup_session_later step on session sid
C38_EndingStep(sid) ==
    \/ timers'[sid] # timers[sid]
    \/ sessions[sid].status # "ended" /\ sessions'[sid].status = "ended"

\* C38: during the grace period after end_session the record is in the table with
\* status ended, after the grace period it is gone, and a step that ends or removes
\* one session leaves the records of the other sessions as they are
C38_EndedResolvableThenRemoved ==
    /\ [](\A sid \in SessionIds :
             IF C38_InGracePeriod(sid)
             THEN Present(sid) /\ sessions[sid].status = "ended"
             ELSE Present(sid) => sessions[sid].status = "active")
    /\ [][\A sid \in SessionIds : C38_EndingStep(sid) =>
             \A other \in SessionIds \ {sid} : sessions'[other] = sessions[other]]_vars


\* task t leaves processing_tasks in this step
C39_SlotReleased(t) == t \in processing_tasks /\ t \notin processing_tasks'

\* C39: a VAD task leaves processing_tasks only when no handler task of the publishes
\* it awaited is still running; a task that ends by itself has published its result
\* and is past its last publish (vad_completed, or speech_detected when speech was
\* detected)
C39_SlotKeptUntilHandlersEnd ==
    [][\A t \in InputIds : (worker = "vad" /\ C39_SlotReleased(t)) =>
          /\ downstream'[t] = 0
          /\ tasks'[t] = "done" =>
                /\ tasks[t] \in {"publishing", "publishing_speech", "publishing_error"}
                /\ \E i \in DOMAIN out_history : out_history[i].ev = t]_vars

\* a VAD task that detected speech has left processing_tasks after the handler tasks
\* of vad_completed and of speech_detected ended, while another task still holds a
\* slot
C39_Witness ==
    /\ worker = "vad"
    /\ \E t \in InputIds :
          /\ tasks[t] = "done"
          /\ t \notin processing_tasks
          /\ \E i \in DOMAIN speech_history : speech_history[i].ev = t
          /\ downstream[t] = 0
          /\ processing_tasks # {}


====
